---- MODULE Spec2Model ----
(***************************************************************************)
(* A model of the deal ingestion pipeline of AmazonAffiliatedBot:          *)
(* DealScraper (src/scraper.py).  Texts are sequences of one-character     *)
(* strings, ratings are kept in tenths of a star (4.5 stars = 45), and     *)
(* the clock counts whole hours.                                           *)
(***************************************************************************)
EXTENDS Integers, Sequences, FiniteSets, TLC

VARIABLES
    \* DealScraper instance and one scrape_real_amazon_deals call
    max_deals_per_source, deal_timestamps, now,
    pc, src_idx, all_deals, unique_deals, catchy_deals, scored_deals, top_deals,
    \* one direct call of _score_deal
    sc_pc, sc_deal, sc_score,
    \* one call of _extract_product_data
    ex_pc, element, product,
    \* one call of a public operation of DealScraper, fetch by fetch
    op, attempt, retry_delay, gets, sleeps, fetched, contributed, exhausted,
    caught, raised, result, last_get,
    \* one call of LinkValidator.validate_link
    lv_pc, url, max_retries, expected_affiliate_tag, v_attempt, requests, pauses,
    clock, response, response_time, validation, validation_untagged, tag_warnings,
    \* one call of LinkValidator.validate_links_batch
    b_pc, urls, max_concurrent, semaphore, tasks, results, completion, validated_results,
    \* one call of LinkValidator.get_validation_stats
    st_pc, stats,
    \* a Config instance and one call of Config.get_affiliate_link
    al_pc, AMAZON_AFFILIATE_ID, REGIONAL_AFFILIATE_IDS, product_url, region, affiliate_link,
    \* one call of DealScraper._parse_amazon_deals
    pa_pc, soup, parsed_deals, tried,
    \* one call of LinkValidator._is_amazon_link or of
    \* DealScraper.scrape_specific_deal
    ck_pc, ck_url, is_amazon_link, sd_gets, specific_deal,
    \* one DealScraper or LinkValidator instance and its connection pool
    component, session, sessions_created, sessions_closed, session_uses,
    \* one TaskScheduler: self.running, self.tasks, the start() calls, a
    \* stop() call and a run_immediate_task() call in progress
    running, scheduler_tasks, start_pc, stop_pc, stop_awaits, immediate

instVars == <<max_deals_per_source, deal_timestamps, now>>
runVars == <<pc, src_idx, all_deals, unique_deals, catchy_deals, scored_deals, top_deals>>
scoreVars == <<sc_pc, sc_deal, sc_score>>
extractVars == <<ex_pc, element, product>>
fetchVars ==
    <<op, attempt, retry_delay, gets, sleeps, fetched, contributed, exhausted,
      caught, raised, result, last_get>>
linkVars ==
    <<lv_pc, url, max_retries, expected_affiliate_tag, v_attempt, requests, pauses,
      clock, response, response_time, validation, validation_untagged, tag_warnings>>
batchVars ==
    <<b_pc, urls, max_concurrent, semaphore, tasks, results, completion, validated_results>>
statsVars == <<st_pc, stats>>
configVars == <<al_pc, AMAZON_AFFILIATE_ID, REGIONAL_AFFILIATE_IDS, product_url, region, affiliate_link>>
parseVars == <<pa_pc, soup, parsed_deals, tried>>
checkVars == <<ck_pc, ck_url, is_amazon_link, sd_gets, specific_deal>>
poolVars == <<component, session, sessions_created, sessions_closed, session_uses>>
schedVars == <<running, scheduler_tasks, start_pc, stop_pc, stop_awaits, immediate>>
sysVars == <<checkVars, poolVars, schedVars>>
fnVars == <<statsVars, configVars, parseVars, sysVars>>
ioVars == <<fetchVars, linkVars, batchVars, fnVars>>
vars == <<instVars, runVars, scoreVars, extractVars, ioVars>>

----------------------------------------------------------------------------
(* Bounds of the model *)

\* candidates collected over all sources of one run
MaxDeals == 3
\* sources walked by one run (the first NumSources entries of amazon_sources)
NumSources == 2
\* the clock stops advancing at MaxClock hours
MaxClock == 3
\* hours the clock advances in one step
TickHours == 3

----------------------------------------------------------------------------
(* Text: str methods and the regular expressions used on discount texts *)

DigitChars == <<"0", "1", "2", "3", "4", "5", "6", "7", "8", "9">>
UpperChars ==
    <<"A", "B", "C", "D", "E", "F", "G", "H", "I", "J", "K", "L", "M",
      "N", "O", "P", "Q", "R", "S", "T", "U", "V", "W", "X", "Y", "Z">>
LowerChars ==
    <<"a", "b", "c", "d", "e", "f", "g", "h", "i", "j", "k", "l", "m",
      "n", "o", "p", "q", "r", "s", "t", "u", "v", "w", "x", "y", "z">>

DigitSet == {DigitChars[i] : i \in DOMAIN DigitChars}
UpperSet == {UpperChars[i] : i \in DOMAIN UpperChars}
LowerSet == {LowerChars[i] : i \in DOMAIN LowerChars}
DigitValues == [c \in DigitSet |-> (CHOOSE i \in DOMAIN DigitChars : DigitChars[i] = c) - 1]
LowerOf == [c \in UpperSet |-> LowerChars[CHOOSE i \in DOMAIN UpperChars : UpperChars[i] = c]]

IsDigit(c) ==
    c \in DigitSet
DigitVal(c) ==
    DigitValues[c]
IsUpper(c) ==
    c \in UpperSet
IsLower(c) ==
    c \in LowerSet
IsSpace(c) ==
    c \in {" ", "\t", "\n"}

\* str.lower()
ToLowerChar(c) ==
    IF IsUpper(c) THEN LowerOf[c] ELSE c
Lower(s) ==
    [i \in 1..Len(s) |-> ToLowerChar(s[i])]

\* `w in s` for strings
Contains(s, w) ==
    \E i \in 1..(Len(s) - Len(w) + 1) : SubSeq(s, i, i + Len(w) - 1) = w

\* int() of a run of decimal digits
RECURSIVE DecimalValue(_)
DecimalValue(ds) ==
    IF ds = <<>> THEN 0
    ELSE 10 * DecimalValue(SubSeq(ds, 1, Len(ds) - 1)) + DigitVal(ds[Len(ds)])

\* the last index of the greedy \d+ that starts at i
DigitRunEnd(s, i) ==
    CHOOSE j \in i..Len(s) :
        /\ \A k \in i..j : IsDigit(s[k])
        /\ (j = Len(s) \/ ~IsDigit(s[j + 1]))

\* the index after the greedy \s* that starts at k
SkipSpaces(s, k) ==
    CHOOSE m \in k..(Len(s) + 1) :
        /\ \A n \in k..(m - 1) : IsSpace(s[n])
        /\ (m = Len(s) + 1 \/ ~IsSpace(s[m]))

\* re.search(r'(\d+)\s*%', s) matches with the group starting at i
PercentMatchAt(s, i) ==
    /\ IsDigit(s[i])
    /\ LET m == SkipSpaces(s, DigitRunEnd(s, i) + 1)
       IN  m <= Len(s) /\ s[m] = "%"

LIGHTNING == <<"l", "i", "g", "h", "t", "n", "i", "n", "g">>
LIMITED == <<"l", "i", "m", "i", "t", "e", "d">>

----------------------------------------------------------------------------
(* DealScraper configuration *)

MIN_DISCOUNT_PERCENT == 20
MIN_RATING == 40
MIN_REVIEWS == 50

\* _extract_discount_percentage
ExtractDiscountPercentage(discount_text) ==
    IF discount_text = <<>> THEN 0
    ELSE IF \E i \in 1..Len(discount_text) : PercentMatchAt(discount_text, i)
         THEN LET i == CHOOSE i \in 1..Len(discount_text) :
                           /\ PercentMatchAt(discount_text, i)
                           /\ \A h \in 1..(i - 1) : ~PercentMatchAt(discount_text, h)
              IN  DecimalValue(SubSeq(discount_text, i, DigitRunEnd(discount_text, i)))
         ELSE 0


----------------------------------------------------------------------------
(* _score_deal *)

\* the discount component without its cap
DiscountScoreUncapped(deal) ==
    ExtractDiscountPercentage(deal.discount) * 2

\* "Discount percentage (0-50 points)"
DiscountScore(deal) ==
    LET doubled == ExtractDiscountPercentage(deal.discount) * 2
    IN  IF doubled < 50 THEN doubled ELSE 50

\* "Rating (0-30 points)"
RatingScore(deal) ==
    IF deal.rating >= 45 THEN 30
    ELSE IF deal.rating >= 40 THEN 20
    ELSE IF deal.rating >= 35 THEN 10
    ELSE 0

\* "Review count (0-20 points)"
ReviewScore(deal) ==
    IF deal.review_count >= 1000 THEN 20
    ELSE IF deal.review_count >= 500 THEN 15
    ELSE IF deal.review_count >= 100 THEN 10
    ELSE IF deal.review_count >= 50 THEN 5
    ELSE 0

\* a freshness bonus of 20 for the first hour
FreshnessScoreDouble(deal, stamps, t) ==
    IF deal.asin \in DOMAIN stamps
    THEN LET time_since_seen == t - stamps[deal.asin]
         IN  IF time_since_seen < 1 THEN 20
             ELSE IF time_since_seen < 6 THEN 7
             ELSE IF time_since_seen < 24 THEN 5
             ELSE 0
    ELSE 0

\* "Deal freshness bonus (0-10 points)": stamps is deal_timestamps, t is now()
FreshnessScore(deal, stamps, t) ==
    IF deal.asin \in DOMAIN stamps
    THEN LET time_since_seen == t - stamps[deal.asin]
         IN  IF time_since_seen < 1 THEN 10
             ELSE IF time_since_seen < 6 THEN 7
             ELSE IF time_since_seen < 24 THEN 5
             ELSE 0
    ELSE 0

\* the badge test without lower()
BadgeScoreCaseSensitive(deal) ==
    IF deal.discount # <<>>
       /\ (Contains(deal.discount, LIGHTNING) \/ Contains(deal.discount, LIMITED))
    THEN 5
    ELSE 0

\* "Deal badge bonus"
BadgeScore(deal) ==
    IF deal.discount # <<>>
       /\ (Contains(Lower(deal.discount), LIGHTNING) \/ Contains(Lower(deal.discount), LIMITED))
    THEN 5
    ELSE 0

ScoreDeal(deal, stamps, t) ==
    DiscountScore(deal) + RatingScore(deal) + ReviewScore(deal)
        + FreshnessScore(deal, stamps, t) + BadgeScore(deal)

----------------------------------------------------------------------------
(* scrape_real_amazon_deals: lines 89-146, the part after the fetch loop *)

EmptyMap ==
    [a \in {} |-> 0]

\* the loop body without the seen_asins test
DedupStepNoSeen(acc, deal, t) ==
    IF deal.asin # ""
    THEN [unique_deals |-> Append(acc.unique_deals, deal),
          seen_asins |-> acc.seen_asins \cup {deal.asin},
          stamps |-> IF deal.asin \notin DOMAIN acc.stamps
                     THEN [a \in DOMAIN acc.stamps \cup {deal.asin} |->
                              IF a = deal.asin THEN t ELSE acc.stamps[a]]
                     ELSE acc.stamps]
    ELSE acc

\* the loop body stamping every kept deal, recorded before or not
DedupStepRestamp(acc, deal, t) ==
    IF deal.asin # "" /\ deal.asin \notin acc.seen_asins
    THEN [unique_deals |-> Append(acc.unique_deals, deal),
          seen_asins |-> acc.seen_asins \cup {deal.asin},
          stamps |-> [a \in DOMAIN acc.stamps \cup {deal.asin} |->
                         IF a = deal.asin THEN t ELSE acc.stamps[a]]]
    ELSE acc

\* one iteration of the loop over all_deals (lines 93-99)
DedupStep(acc, deal, t) ==
    IF deal.asin # "" /\ deal.asin \notin acc.seen_asins
    THEN [unique_deals |-> Append(acc.unique_deals, deal),
          seen_asins |-> acc.seen_asins \cup {deal.asin},
          stamps |-> IF deal.asin \notin DOMAIN acc.stamps
                     THEN [a \in DOMAIN acc.stamps \cup {deal.asin} |->
                              IF a = deal.asin THEN t ELSE acc.stamps[a]]
                     ELSE acc.stamps]
    ELSE acc

RECURSIVE DedupLoop(_, _, _)
DedupLoop(deals, acc, t) ==
    IF deals = <<>> THEN acc
    ELSE DedupLoop(Tail(deals), DedupStep(acc, Head(deals), t), t)

\* deduplication that rebuilds the first-seen map on every run
DeduplicateFreshMap(deals, stamps, t) ==
    DedupLoop(deals, [unique_deals |-> <<>>, seen_asins |-> {}, stamps |-> EmptyMap], t)

\* lines 90-99: the deduplicated list and the first-seen map after it
Deduplicate(deals, stamps, t) ==
    DedupLoop(deals, [unique_deals |-> <<>>, seen_asins |-> {}, stamps |-> stamps], t)

\* the test of _filter_catchy_deals
MeetsThresholds(deal) ==
    /\ ExtractDiscountPercentage(deal.discount) >= MIN_DISCOUNT_PERCENT
    /\ deal.rating >= MIN_RATING
    /\ deal.review_count >= MIN_REVIEWS

FilterCatchyDeals(deals) ==
    SelectSeq(deals, MeetsThresholds)

\* "any discount, 3.5+ rating, 10+ reviews"
MeetsRelaxedAnyDiscount(deal) ==
    \/ /\ deal.rating >= 35
       /\ deal.review_count >= 10
    \/ /\ deal.rating >= 40
       /\ deal.review_count >= 20

\* line 121
MeetsRelaxed(deal) ==
    \/ /\ ExtractDiscountPercentage(deal.discount) >= 10
       /\ deal.rating >= 35
       /\ deal.review_count >= 10
    \/ /\ deal.rating >= 40
       /\ deal.review_count >= 20

\* a last resort that takes every deal
HasAnySignalOrNone(deal) ==
    TRUE

\* line 130
HasAnySignal(deal) ==
    deal.rating > 0 \/ deal.review_count > 0

\* lines 108-130: catchy_deals as it stands at line 132
SelectCatchy(unique) ==
    LET catchy == FilterCatchyDeals(unique)
    IN  IF Len(catchy) = 0 /\ Len(unique) > 0
        THEN LET relaxed_deals == SelectSeq(unique, MeetsRelaxed)
             IN  IF relaxed_deals # <<>> THEN relaxed_deals
                 ELSE SelectSeq(unique, HasAnySignal)
        ELSE catchy

\* an insertion that puts x before the entries of equal score
InsertByScoreUnstable(sorted, x) ==
    LET k == Cardinality({i \in 1..Len(sorted) : sorted[i][2] > x[2]})
    IN  SubSeq(sorted, 1, k) \o <<x>> \o SubSeq(sorted, k + 1, Len(sorted))

\* list.sort(key=score, reverse=True): where x goes among the already sorted
InsertByScore(sorted, x) ==
    LET k == Cardinality({i \in 1..Len(sorted) : sorted[i][2] >= x[2]})
    IN  SubSeq(sorted, 1, k) \o <<x>> \o SubSeq(sorted, k + 1, Len(sorted))

RECURSIVE SortLoop(_, _)
SortLoop(rest, sorted) ==
    IF rest = <<>> THEN sorted
    ELSE SortLoop(Tail(rest), InsertByScore(sorted, Head(rest)))

\* line 138
SortByScore(scored) ==
    SortLoop(scored, <<>>)

\* line 137
ScoreAll(catchy, stamps, t) ==
    [i \in 1..Len(catchy) |-> <<catchy[i], ScoreDeal(catchy[i], stamps, t)>>]

AmazonSources ==
    1..NumSources

\* line 141
TopDeals(sorted, max_per_source) ==
    LET cap == max_per_source * Cardinality(AmazonSources)
        n == IF Len(sorted) < cap THEN Len(sorted) ELSE cap
    IN  [i \in 1..n |-> sorted[i][1]]


----------------------------------------------------------------------------
(* Candidates the sources can yield.  Every discount text is an output of  *)
(* _clean_discount: "N% off", or the first 20 characters of a badge text   *)
(* in which no digit is directly followed by "%".                          *)

Txt25Off == <<"2", "5", "%", " ", "o", "f", "f">>
Txt10Off == <<"1", "0", "%", " ", "o", "f", "f">>
Txt5Off == <<"5", "%", " ", "o", "f", "f">>
TxtLimited ==
    <<"L", "i", "m", "i", "t", "e", "d", " ", "t", "i", "m", "e", " ", "d", "e", "a", "l">>

Deal(asin, discount, rating, review_count) ==
    [asin |-> asin, discount |-> discount, rating |-> rating, review_count |-> review_count]

Catalog ==
    { Deal("B000000001", Txt25Off, 46, 1200),
      Deal("B000000001", Txt10Off, 35, 10),
      Deal("B000000002", TxtLimited, 40, 50),
      Deal("B000000002", Txt5Off, 35, 10),
      Deal("B000000003", Txt10Off, 45, 10),
      Deal("B000000003", <<>>, 0, 0) }

\* constructor argument max_deals_per_source (default 5)
MaxDealsPerSourceChoices ==
    {1, 5}

SeqsUpTo(S, n) ==
    UNION {[1..k -> S] : k \in 0..n}

Min(a, b) ==
    IF a < b THEN a ELSE b

----------------------------------------------------------------------------
(* State after construction *)

NoDeal ==
    Deal("", <<>>, 0, 0)
\* Python's None, told apart from every text and every record
None ==
    <<"None">>
NoProduct ==
    <<>>
NoElement ==
    [data_asin |-> None, hrefs |-> <<>>, markup |-> <<>>,
     selector_title |-> None, link_text |-> None, raises |-> FALSE]

InitInstance ==
    /\ max_deals_per_source \in MaxDealsPerSourceChoices
    /\ deal_timestamps = EmptyMap
    /\ now = 0

InitRun ==
    /\ pc = "idle"
    /\ src_idx = 1
    /\ all_deals = <<>>
    /\ unique_deals = <<>>
    /\ catchy_deals = <<>>
    /\ scored_deals = <<>>
    /\ top_deals = <<>>

InitScoreOff ==
    /\ sc_pc = "off"
    /\ sc_deal = NoDeal
    /\ sc_score = 0

InitExtractOff ==
    /\ ex_pc = "off"
    /\ element = NoElement
    /\ product = NoProduct

\* _scrape_source, lines 230-231
SourceMaxRetries == 3
InitialRetryDelay == 5

InitFetchOff ==
    /\ op = "none"
    /\ attempt = 0
    /\ retry_delay = InitialRetryDelay
    /\ gets = 0
    /\ sleeps = <<>>
    /\ fetched = <<>>
    /\ contributed = <<>>
    /\ exhausted = {}
    /\ caught = {}
    /\ raised = {}
    /\ result = <<>>
    /\ last_get = <<>>

\* no response received yet
NoResponse ==
    [kind |-> "none", status |-> 0, final_url |-> None, dur |-> 0]


InitLinkOff ==
    /\ lv_pc = "off"
    /\ url = <<>>
    /\ max_retries = 2
    /\ expected_affiliate_tag = None
    /\ v_attempt = 0
    /\ requests = <<>>
    /\ pauses = <<>>
    /\ clock = 0
    /\ response = NoResponse
    /\ response_time = 0
    /\ validation = <<>>
    /\ validation_untagged = <<>>
    /\ tag_warnings = 0

InitBatchOff ==
    /\ b_pc = "off"
    /\ urls = <<>>
    /\ max_concurrent = 10
    /\ semaphore = 0
    /\ tasks = <<>>
    /\ results = <<>>
    /\ completion = <<>>
    /\ validated_results = <<>>

InitStatsOff ==
    /\ st_pc = "off"
    /\ stats = EmptyMap

InitConfigOff ==
    /\ al_pc = "off"
    /\ AMAZON_AFFILIATE_ID = <<>>
    /\ REGIONAL_AFFILIATE_IDS = EmptyMap
    /\ product_url = <<>>
    /\ region = None
    /\ affiliate_link = <<>>

InitParseOff ==
    /\ pa_pc = "off"
    /\ soup = <<>>
    /\ parsed_deals = <<>>
    /\ tried = <<>>

InitCheckOff ==
    /\ ck_pc = "off"
    /\ ck_url = <<>>
    /\ is_amazon_link = <<>>
    /\ sd_gets = <<>>
    /\ specific_deal = <<>>

InitPoolOff ==
    /\ component = "none"
    /\ session = "None"
    /\ sessions_created = 0
    /\ sessions_closed = 0
    /\ session_uses = <<>>

InitSchedOff ==
    /\ running = FALSE
    /\ scheduler_tasks = <<>>
    /\ start_pc = <<>>
    /\ stop_pc = "off"
    /\ stop_awaits = 0
    /\ immediate = "none"

InitSysOff ==
    InitCheckOff /\ InitPoolOff /\ InitSchedOff

InitFnOff ==
    InitStatsOff /\ InitConfigOff /\ InitParseOff /\ InitSysOff

InitIoOff ==
    InitFetchOff /\ InitLinkOff /\ InitBatchOff /\ InitFnOff

Init ==
    InitInstance /\ InitRun /\ InitScoreOff /\ InitExtractOff /\ InitIoOff

----------------------------------------------------------------------------
(* scrape_real_amazon_deals *)

\* lines 71-74: a call starts
StartRun ==
    /\ pc \in {"idle", "done"}
    /\ pc' = "fetching"
    /\ src_idx' = 1
    /\ all_deals' = <<>>
    /\ unique_deals' = <<>>
    /\ catchy_deals' = <<>>
    /\ scored_deals' = <<>>
    /\ top_deals' = <<>>
    /\ UNCHANGED <<instVars, scoreVars, extractVars, ioVars>>

\* lines 76-87: one source; _parse_amazon_deals hands back at most
\* max_deals_per_source * 2 candidates (line 317), none when the fetch fails
ScrapeSource ==
    /\ pc = "fetching"
    /\ src_idx \in AmazonSources
    /\ \E deals \in SeqsUpTo(Catalog, Min(2 * max_deals_per_source, MaxDeals - Len(all_deals))) :
           all_deals' = all_deals \o deals
    /\ src_idx' = src_idx + 1
    /\ UNCHANGED <<pc, unique_deals, catchy_deals, scored_deals, top_deals>>
    /\ UNCHANGED <<instVars, scoreVars, extractVars, ioVars>>

\* lines 89-146 with the candidates scored against the first-seen map as it
\* was before deduplication
ProcessDealsScoredBeforeRecording ==
    /\ pc = "fetching"
    /\ src_idx \notin AmazonSources
    /\ LET dedup == Deduplicate(all_deals, deal_timestamps, now)
           catchy == IF Len(dedup.unique_deals) = 0 THEN <<>>
                     ELSE SelectCatchy(dedup.unique_deals)
           sorted == IF Len(catchy) = 0 THEN <<>>
                     ELSE SortByScore(ScoreAll(catchy, deal_timestamps, now))
       IN  /\ deal_timestamps' = dedup.stamps
           /\ unique_deals' = dedup.unique_deals
           /\ catchy_deals' = catchy
           /\ scored_deals' = sorted
           /\ top_deals' = TopDeals(sorted, max_deals_per_source)
    /\ pc' = "done"
    /\ UNCHANGED <<max_deals_per_source, now, src_idx, all_deals>>
    /\ UNCHANGED <<scoreVars, extractVars, ioVars>>

\* lines 89-146: no suspension point, so one step
ProcessDeals ==
    /\ pc = "fetching"
    /\ src_idx \notin AmazonSources
    /\ LET dedup == Deduplicate(all_deals, deal_timestamps, now)
           catchy == IF Len(dedup.unique_deals) = 0 THEN <<>>
                     ELSE SelectCatchy(dedup.unique_deals)
           sorted == IF Len(catchy) = 0 THEN <<>>
                     ELSE SortByScore(ScoreAll(catchy, dedup.stamps, now))
       IN  /\ deal_timestamps' = dedup.stamps
           /\ unique_deals' = dedup.unique_deals
           /\ catchy_deals' = catchy
           /\ scored_deals' = sorted
           /\ top_deals' = TopDeals(sorted, max_deals_per_source)
    /\ pc' = "done"
    /\ UNCHANGED <<max_deals_per_source, now, src_idx, all_deals>>
    /\ UNCHANGED <<scoreVars, extractVars, ioVars>>

\* datetime.now() moves on: time passes at every suspension point of a run
\* (the fetches, the pacing sleeps) and between runs
Tick ==
    /\ now + TickHours <= MaxClock
    /\ now' = now + TickHours
    /\ UNCHANGED <<max_deals_per_source, deal_timestamps>>
    /\ UNCHANGED <<runVars, scoreVars, extractVars, ioVars>>

Next ==
    \/ StartRun
    \/ ScrapeSource
    \/ ProcessDeals
    \/ Tick

Spec ==
    Init /\ [][Next]_vars


----------------------------------------------------------------------------
(* _score_deal called on its own: any Product, any first-seen map *)

Txt100Off == <<"1", "0", "0", "%", " ", "o", "f", "f">>
TxtLightningDeal ==
    <<"L", "i", "g", "h", "t", "n", "i", "n", "g", " ", "D", "e", "a", "l">>
Txt25OffLightningDeal ==
    <<"2", "5", "%", " ", "o", "f", "f", " ",
      "L", "i", "g", "h", "t", "n", "i", "n", "g", " ", "D", "e", "a", "l">>
Txt25SpLightningDeal ==
    <<"2", "5", " ", "%", " ",
      "L", "i", "g", "h", "t", "n", "i", "n", "g", " ", "D", "e", "a", "l">>

ScoreTexts ==
    {<<>>, Txt5Off, Txt10Off, Txt25Off, Txt100Off, TxtLimited, TxtLightningDeal,
     Txt25OffLightningDeal, Txt25SpLightningDeal}
ScoreRatings ==
    {0, 34, 35, 40, 45, 46, 50}
ScoreReviews ==
    {0, 49, 50, 100, 500, 1000, 1200}
\* hours at which the identifier was first seen, and hours at which it is scored
FirstSeenChoices ==
    {0, 7}
ScoreNows ==
    {0, 1, 5, 6, 23, 24, 100}

InitScore ==
    /\ max_deals_per_source \in MaxDealsPerSourceChoices
    /\ deal_timestamps \in
           {EmptyMap} \cup {[a \in {"B000000001"} |-> t] : t \in FirstSeenChoices}
    /\ now \in ScoreNows
    /\ InitRun
    /\ InitExtractOff
    /\ InitIoOff
    /\ sc_pc = "ready"
    /\ sc_deal \in {Deal("B000000001", d, r, n) :
                        d \in ScoreTexts, r \in ScoreRatings, n \in ScoreReviews}
    /\ sc_score = 0

CallScoreDeal ==
    /\ sc_pc = "ready"
    /\ sc_score' = ScoreDeal(sc_deal, deal_timestamps, now)
    /\ sc_pc' = "scored"
    /\ UNCHANGED <<sc_deal, instVars, runVars, extractVars, ioVars>>

NextScore ==
    CallScoreDeal

SpecScore ==
    InitScore /\ [][NextScore]_vars


----------------------------------------------------------------------------
(* Properties of the quality filter, the deduplication and the ranking,    *)
(* stated on a finished run (pc = "done")                                  *)

Range(q) ==
    {q[i] : i \in DOMAIN q}

\* the tiers as the specification words them
IsStrict(d) ==
    ExtractDiscountPercentage(d.discount) >= 20 /\ d.rating >= 40 /\ d.review_count >= 50
IsRelaxed(d) ==
    \/ ExtractDiscountPercentage(d.discount) >= 10 /\ d.rating >= 35 /\ d.review_count >= 10
    \/ d.rating >= 40 /\ d.review_count >= 20
IsLastResort(d) ==
    d.rating > 0 \/ d.review_count > 0

C2_NoFabrication ==
    pc = "done" =>
        /\ Range(top_deals) \subseteq Range(all_deals)
        /\ (\A d \in Range(unique_deals) : ~(d.rating > 0 \/ d.review_count > 0))
               => top_deals = <<>>

\* a run that extracted candidates, none with a rating or a review
C2_Witness ==
    /\ pc = "done"
    /\ Len(all_deals) > 0
    /\ \A d \in Range(all_deals) : d.rating = 0 /\ d.review_count = 0
    /\ top_deals = <<>>

\* the indices of all_deals that hold the first occurrence of their identifier
FirstIndices(deals) ==
    {i \in DOMAIN deals : \A j \in 1..(i - 1) : deals[j].asin # deals[i].asin}
\* the k-th smallest element of a set of numbers
KthOf(I, k) ==
    CHOOSE i \in I : Cardinality({j \in I : j < i}) = k - 1

\* C3: deduplication keeps, for every identifier, exactly its first occurrence
\* among the candidates of all sources, unmerged and in first-occurrence order,
\* and no identifier twice.
C3_FirstOccurrenceKept ==
    pc = "done" =>
        /\ Len(unique_deals) = Cardinality(FirstIndices(all_deals))
        /\ \A k \in DOMAIN unique_deals :
               unique_deals[k] = all_deals[KthOf(FirstIndices(all_deals), k)]
        /\ \A i, j \in DOMAIN unique_deals :
               i # j => unique_deals[i].asin # unique_deals[j].asin

\* a run where a later candidate repeats an identifier with other data
C3_Witness ==
    /\ pc = "done"
    /\ Len(unique_deals) >= 2
    /\ \E i, j \in DOMAIN all_deals :
           i < j /\ all_deals[i].asin = all_deals[j].asin /\ all_deals[i] # all_deals[j]

\* C4: deduplication is idempotent: applied (at any later time) to the list
\* it produced, it returns the same records in the same order and leaves
\* every first-seen entry as it is.
C4_DedupIdempotent ==
    pc = "done" =>
        \A t \in now..(now + TickHours) :
            LET again == Deduplicate(unique_deals, deal_timestamps, t)
            IN  /\ again.unique_deals = unique_deals
                /\ again.stamps = deal_timestamps

\* a deduplicated list of several records, one of them first seen earlier
C4_Witness ==
    /\ pc = "done"
    /\ Len(unique_deals) >= 2
    /\ Len(all_deals) > Len(unique_deals)
    /\ \E d \in Range(unique_deals) : deal_timestamps[d.asin] < now

\* C5: over any sequence of runs the first-seen map only grows: no entry is
\* removed or overwritten, and every identifier kept by a run's deduplication
\* is in the map after the run.
C5_FirstSeenOnlyGrows ==
    [][/\ \A a \in DOMAIN deal_timestamps :
              a \in DOMAIN deal_timestamps' /\ deal_timestamps'[a] = deal_timestamps[a]
       /\ pc' = "done" =>
              \A d \in Range(unique_deals') : d.asin \in DOMAIN deal_timestamps']_vars

\* a later run that met an identifier again and kept its earlier time
C5_Witness ==
    /\ pc = "done"
    /\ \E d \in Range(unique_deals) : deal_timestamps[d.asin] < now
    /\ \E d \in Range(unique_deals) : deal_timestamps[d.asin] = now

\* where a deal stands in the filtered list
PositionIn(q, d) ==
    CHOOSE i \in DOMAIN q : q[i] = d

\* C9: the returned list is ordered by non-increasing score, and returned
\* candidates of equal score keep the relative order of the filtered list.
C9_RankedStable ==
    pc = "done" =>
        /\ Len(top_deals) <= Len(scored_deals)
        /\ \A i \in DOMAIN top_deals : top_deals[i] = scored_deals[i][1]
        /\ \A i, j \in DOMAIN top_deals :
               i < j =>
                   /\ scored_deals[i][2] >= scored_deals[j][2]
                   /\ scored_deals[i][2] = scored_deals[j][2] =>
                          PositionIn(catchy_deals, top_deals[i])
                              < PositionIn(catchy_deals, top_deals[j])

\* three ranked candidates, two of equal score, reordered by the sort
C9_Witness ==
    /\ pc = "done"
    /\ Len(top_deals) = 3
    /\ top_deals # catchy_deals
    /\ \E i, j \in DOMAIN top_deals : i < j /\ scored_deals[i][2] = scored_deals[j][2]

----------------------------------------------------------------------------
(* Properties of _score_deal, stated on a finished call (sc_pc = "scored") *)

\* C6: for every candidate and every first-seen map the score is in [0, 125].
C6_ScoreBounded ==
    sc_pc = "scored" => sc_score >= 0 /\ sc_score <= 125

\* a scored candidate near the top of the range
C6_Witness ==
    sc_pc = "scored" /\ sc_score > 100

\* C7: 25% discount, rating 4.6, 1200 reviews, a discount text carrying the
\* badge "Lightning Deal" and an identifier never seen before score
\* 50 + 30 + 20 + 0 + 5 = 105.
C7_ScoreExample ==
    (/\ sc_pc = "scored"
     /\ sc_deal.discount \in {Txt25OffLightningDeal, Txt25SpLightningDeal}
     /\ sc_deal.rating = 46
     /\ sc_deal.review_count = 1200
     /\ sc_deal.asin \notin DOMAIN deal_timestamps)
        => sc_score = 105

C7_Witness ==
    /\ sc_pc = "scored"
    /\ sc_deal = Deal("B000000001", Txt25OffLightningDeal, 46, 1200)
    /\ deal_timestamps = EmptyMap
    /\ sc_score = 105

\* a candidate at the top band of every component: 25% or more, 4.5 stars or
\* more, 1000 reviews or more, first seen less than an hour ago, a badge
TopOfEveryBand ==
    /\ sc_deal.discount \in {Txt25OffLightningDeal, Txt25SpLightningDeal}
    /\ sc_deal.rating >= 45
    /\ sc_deal.review_count >= 1000
    /\ sc_deal.asin \in DOMAIN deal_timestamps
    /\ now - deal_timestamps[sc_deal.asin] < 1

\* C8 as stated: the maximum attainable score is 125, so the candidate at the
\* top of every component scores 125.
C8_MaxIs125 ==
    (sc_pc = "scored" /\ TopOfEveryBand) => sc_score = 125

\* C8 amended: the maximum attainable score is 115 = 50 + 30 + 20 + 10 + 5.
C8_MaxIs115 ==
    sc_pc = "scored" =>
        /\ sc_score <= 115
        /\ TopOfEveryBand => sc_score = 115

C8_Witness ==
    sc_pc = "scored" /\ TopOfEveryBand /\ sc_score = 115


----------------------------------------------------------------------------
(* _extract_product_data: the identifier and the title of one element.     *)
(* An element is what the function reads of it: the data-asin attribute    *)
(* (None when absent), the href of every <a href>, the rest of the markup, *)
(* the text the title selectors find (None when none does), the text of    *)
(* the first link (None without a link), and whether anything raises.      *)

DP == <<"/", "d", "p", "/">>
GP_PRODUCT == <<"/", "g", "p", "/", "p", "r", "o", "d", "u", "c", "t", "/">>
QUOTE == <<"\"">>
AMAZON_DP == <<"h", "t", "t", "p", "s", ":", "/", "/", "w", "w", "w", ".", "a", "m", "a", "z", "o", "n", ".", "c", "o", "m", "/", "d", "p", "/">>

\* [A-Z0-9]
IsUpperOrDigit(c) ==
    IsUpper(c) \/ IsDigit(c)

\* re.search(prefix + r'([A-Z0-9]{10})', s) matches at i
AsinMatchAt(s, prefix, i) ==
    /\ i + Len(prefix) + 9 <= Len(s)
    /\ SubSeq(s, i, i + Len(prefix) - 1) = prefix
    /\ \A k \in (i + Len(prefix))..(i + Len(prefix) + 9) : IsUpperOrDigit(s[k])

\* group(1) of the leftmost match, None without a match
SearchAsin(s, prefix) ==
    IF \E i \in 1..Len(s) : AsinMatchAt(s, prefix, i)
    THEN LET i == CHOOSE i \in 1..Len(s) :
                      /\ AsinMatchAt(s, prefix, i)
                      /\ \A h \in 1..(i - 1) : ~AsinMatchAt(s, prefix, h)
         IN  SubSeq(s, i + Len(prefix), i + Len(prefix) + 9)
    ELSE None

\* `not x` for an optional string
Falsy(x) ==
    x = None \/ x = <<>>

\* lines 358-368: the first link whose href holds an identifier
RECURSIVE AsinFromLinks(_)
AsinFromLinks(hrefs) ==
    IF hrefs = <<>> THEN None
    ELSE IF SearchAsin(Head(hrefs), DP) # None THEN SearchAsin(Head(hrefs), DP)
    ELSE IF SearchAsin(Head(hrefs), GP_PRODUCT) # None THEN SearchAsin(Head(hrefs), GP_PRODUCT)
    ELSE AsinFromLinks(Tail(hrefs))

RECURSIVE JoinQuoted(_)
JoinQuoted(texts) ==
    IF texts = <<>> THEN <<>>
    ELSE QUOTE \o Head(texts) \o QUOTE \o JoinQuoted(Tail(texts))

\* str(element): the attribute, the links and the rest, each value in quotes
Serialized(e) ==
    JoinQuoted((IF e.data_asin = None THEN <<>> ELSE <<e.data_asin>>) \o e.hrefs)
        \o e.markup

\* lines 355-374: asin as it stands at line 376
FindAsin(e) ==
    LET from_attr == e.data_asin
        from_links == IF Falsy(from_attr) THEN AsinFromLinks(e.hrefs) ELSE from_attr
    IN  IF Falsy(from_links)
        THEN SearchAsin(Serialized(e), DP)
        ELSE from_links

\* line 376
AsinAccepted(asin) ==
    ~Falsy(asin) /\ Len(asin) = 10

\* str.strip()
Strip(s) ==
    IF \A i \in DOMAIN s : IsSpace(s[i]) THEN <<>>
    ELSE LET first == CHOOSE i \in DOMAIN s :
                          ~IsSpace(s[i]) /\ \A h \in 1..(i - 1) : IsSpace(s[h])
             last == CHOOSE i \in DOMAIN s :
                         ~IsSpace(s[i]) /\ \A h \in (i + 1)..Len(s) : IsSpace(s[h])
         IN  SubSeq(s, first, last)

\* `not title or len(title.strip()) < 5`
TitleTooShort(title) ==
    Falsy(title) \/ Len(Strip(title)) < 5

\* lines 392-398: title as it stands at line 400
FindTitle(e) ==
    IF TitleTooShort(e.selector_title) /\ e.link_text # None
    THEN e.link_text
    ELSE e.selector_title

\* the value _extract_product_data returns: an Optional[Product], here the
\* empty sequence for None and a one-element sequence for a Product
ExtractProductData(e) ==
    IF ~AsinAccepted(FindAsin(e)) THEN NoProduct
    ELSE IF TitleTooShort(FindTitle(e)) THEN NoProduct
    ELSE IF e.raises THEN NoProduct
    ELSE <<[asin |-> FindAsin(e),
            title |-> Strip(FindTitle(e)),
            link |-> AMAZON_DP \o FindAsin(e)]>>

Asin1 == <<"B", "0", "0", "0", "0", "0", "0", "0", "0", "1">>
AsinLower == <<"b", "0", "0", "0", "0", "0", "0", "0", "0", "x">>
AsinPunct == <<"B", "0", "0", "-", "0", "0", "0", ".", "0", "1">>
AsinShort == <<"B", "0", "0", "0", "0">>
AsinLong == <<"B", "0", "0", "0", "0", "0", "0", "0", "0", "1", "2">>
HrefDp == <<"/", "E", "c", "h", "o", "/", "d", "p", "/", "B", "0", "0", "0", "0", "0", "0", "0", "0", "2", "/", "r", "e", "f">>
HrefGp == <<"/", "g", "p", "/", "p", "r", "o", "d", "u", "c", "t", "/", "B", "0", "0", "0", "0", "0", "0", "0", "0", "3">>
HrefDpLong == <<"/", "d", "p", "/", "B", "0", "0", "0", "0", "0", "0", "0", "0", "4", "5">>
HrefDpLower == <<"/", "d", "p", "/", "b", "0", "0", "0", "0", "0", "0", "0", "0", "2">>
HrefOther == <<"/", "d", "e", "a", "l", "s", "?", "r", "e", "f", "=", "x">>
MarkupDp == <<"<", "i", "m", "g", " ", "s", "r", "c", "=", "\"", "/", "d", "p", "/", "B", "0", "0", "0", "0", "0", "0", "0", "0", "6", "/", "i", ".", "j", "p", "g", "\"", ">">>
MarkupNone == <<"<", "s", "p", "a", "n", ">", "d", "e", "a", "l", "<", "/", "s", "p", "a", "n", ">">>
TitleShort == <<"E", "c", "h", "o">>
TitleOk == <<"E", "c", "h", "o", " ", "D", "o", "t">>
TitleOfLink == <<"F", "i", "r", "e", " ", "T", "V", " ", "S", "t", "i", "c", "k">>

DataAsinChoices ==
    {None, <<>>, Asin1, AsinLower, AsinPunct, AsinShort, AsinLong}
HrefChoices ==
    {HrefDp, HrefGp, HrefDpLong, HrefDpLower, HrefOther}
MarkupChoices ==
    {MarkupDp, MarkupNone}
\* links of one element
MaxLinks == 2

Elements ==
    {[data_asin |-> a, hrefs |-> h, markup |-> m,
      selector_title |-> st, link_text |-> lt, raises |-> r] :
        a \in DataAsinChoices, h \in SeqsUpTo(HrefChoices, MaxLinks), m \in MarkupChoices,
        st \in {None, TitleShort, TitleOk}, lt \in {None, <<>>, TitleOfLink},
        r \in BOOLEAN}

InitExtract ==
    /\ max_deals_per_source = 5
    /\ deal_timestamps = EmptyMap
    /\ now = 0
    /\ InitRun
    /\ InitScoreOff
    /\ InitIoOff
    /\ ex_pc = "ready"
    /\ element \in {e \in Elements : (e.link_text = None) <=> (e.hrefs = <<>>)}
    /\ product = NoProduct

CallExtractProductData ==
    /\ ex_pc = "ready"
    /\ product' = ExtractProductData(element)
    /\ ex_pc' = "returned"
    /\ UNCHANGED <<element, instVars, runVars, scoreVars, ioVars>>

NextExtract ==
    CallExtractProductData

SpecExtract ==
    InitExtract /\ [][NextExtract]_vars

\* letters and digits
IsAlphanumeric(c) ==
    IsUpper(c) \/ IsLower(c) \/ IsDigit(c)

\* C10: every record that survives extraction has an identifier of exactly 10
\* alphanumeric characters, whichever source supplied it (the data-asin
\* attribute, a link path, the serialized element).
C10_IdentifierShape ==
    (ex_pc = "returned" /\ product # NoProduct) =>
        /\ Len(product[1].asin) = 10
        /\ \A i \in DOMAIN product[1].asin : IsAlphanumeric(product[1].asin[i])

----------------------------------------------------------------------------
(* The fetches of DealScraper: _scrape_source and the public operations    *)
(* that call it.  A fetched body is its length and the excerpt of its text *)
(* that the block-page test looks at; waits are in seconds.                *)

\* line 240: min(retry_delay * 2, 60)
MaxRetryDelay == 60
\* line 48
rate_limit_delay == 5
\* line 254: len(html) < 1000
ShortBody == 1000
\* search_products_by_keyword, lines 151-154: the default arguments
max_results == 20
min_rating == 40
min_reviews == 50

\* line 262
BlockWords ==
    { <<"c", "a", "p", "t", "c", "h", "a">>,
      <<"r", "o", "b", "o", "t">>,
      <<"a", "c", "c", "e", "s", "s", " ", "d", "e", "n", "i", "e", "d">> }

\* line 262 without the lower()
IsBlockPageCaseSensitive(html) ==
    \E w \in BlockWords : Contains(html.text, w)

\* line 262
IsBlockPage(html) ==
    \E w \in BlockWords : Contains(Lower(html.text), w)

\* line 240 without the doubling
BackoffKept(rd) ==
    rd

\* line 240: retry_delay = min(retry_delay * 2, 60)
Backoff(rd) ==
    Min(rd * 2, MaxRetryDelay)

\* the retry test of lines 242-245 sleeping after the last attempt as well
RetryOrGiveUpSleepsLast(n, delay, rd) ==
    IF n < SourceMaxRetries - 1
    THEN [next |-> "continue", sleeps |-> <<delay>>, retry_delay |-> rd,
          deals |-> <<>>, parsed |-> FALSE]
    ELSE [next |-> "return", sleeps |-> <<delay>>, retry_delay |-> rd,
          deals |-> <<>>, parsed |-> FALSE]

\* "if attempt < max_retries - 1: sleep(delay); continue" and "return []"
RetryOrGiveUp(n, delay, rd) ==
    IF n < SourceMaxRetries - 1
    THEN [next |-> "continue", sleeps |-> <<delay>>, retry_delay |-> rd,
          deals |-> <<>>, parsed |-> FALSE]
    ELSE [next |-> "return", sleeps |-> <<>>, retry_delay |-> rd,
          deals |-> <<>>, parsed |-> FALSE]

\* lines 234-285 with every handler dropped: an exception leaves the function
AttemptSourceNoHandler(o, n, rd) ==
    IF o.kind = "response"
    THEN IF o.status = 429
         THEN RetryOrGiveUp(n, Backoff(rd), Backoff(rd))
         ELSE IF o.status # 200 THEN RetryOrGiveUp(n, rd, rd)
         ELSE IF o.html.len < ShortBody THEN RetryOrGiveUp(n, rd, rd)
         ELSE IF IsBlockPage(o.html) THEN RetryOrGiveUp(n, rd * 2, rd)
         ELSE [next |-> "return", sleeps |-> <<>>, retry_delay |-> rd,
               deals |-> o.deals, parsed |-> TRUE]
    ELSE [next |-> "raise", sleeps |-> <<>>, retry_delay |-> rd,
          deals |-> <<>>, parsed |-> FALSE]

\* lines 234-285: one pass of the retry loop of _scrape_source, attempt n,
\* current delay rd, on the outcome o of its GET
AttemptSource(o, n, rd) ==
    IF o.kind = "response"
    THEN IF o.status = 429
         THEN RetryOrGiveUp(n, Backoff(rd), Backoff(rd))
         ELSE IF o.status # 200 THEN RetryOrGiveUp(n, rd, rd)
         ELSE IF o.html.len < ShortBody THEN RetryOrGiveUp(n, rd, rd)
         ELSE IF IsBlockPage(o.html) THEN RetryOrGiveUp(n, rd * 2, rd)
         ELSE [next |-> "return", sleeps |-> <<>>, retry_delay |-> rd,
               deals |-> o.deals, parsed |-> TRUE]
    ELSE RetryOrGiveUp(n, rd, rd)

\* the except clause of _scrape_source that an outcome lands in
HandlerOf(o) ==
    IF o.kind = "timeout" THEN {"TimeoutError"}
    ELSE IF o.kind = "error" THEN {"Exception"}
    ELSE {}

\* lines 77-87, a source that ends the run when it yields nothing
AfterSourceAbort(idx, all, ret) ==
    IF ret.deals = <<>>
    THEN [src_idx |-> NumSources + 1, all_deals |-> all, sleeps |-> <<>>]
    ELSE [src_idx |-> idx + 1, all_deals |-> all \o ret.deals,
          sleeps |-> <<rate_limit_delay>>]

\* lines 77-87 going on to the next source without the sleep of line 80
AfterSourceNoPacing(idx, all, ret) ==
    IF ret.next = "raise"
    THEN [src_idx |-> idx + 1, all_deals |-> all, sleeps |-> <<>>]
    ELSE [src_idx |-> idx + 1, all_deals |-> all \o ret.deals, sleeps |-> <<>>]

\* lines 77-87: the rest of the loop body of scrape_real_amazon_deals once
\* _scrape_source has come back with ret
AfterSource(idx, all, ret) ==
    IF ret.next = "raise"
    THEN [src_idx |-> idx + 1, all_deals |-> all, sleeps |-> <<>>]
    ELSE [src_idx |-> idx + 1, all_deals |-> all \o ret.deals,
          sleeps |-> <<rate_limit_delay>>]

\* lines 175-186
SearchFilter(ret) ==
    IF ret.next = "raise" THEN <<>>
    ELSE LET head == SubSeq(ret.deals, 1, Min(Len(ret.deals), max_results))
             Quality(deal) == deal.rating >= min_rating /\ deal.review_count >= min_reviews
         IN  SelectSeq(head, Quality)

\* lines 198-201
deal_of_day_urls ==
    1..2

\* lines 89-146 as a function of the collected candidates
RankedDeals(all, stamps, t, max_per_source) ==
    LET dedup == Deduplicate(all, stamps, t)
        catchy == IF Len(dedup.unique_deals) = 0 THEN <<>>
                  ELSE SelectCatchy(dedup.unique_deals)
        sorted == IF Len(catchy) = 0 THEN <<>>
                  ELSE SortByScore(ScoreAll(catchy, dedup.stamps, t))
    IN  [stamps |-> dedup.stamps, unique_deals |-> dedup.unique_deals,
         catchy_deals |-> catchy, scored_deals |-> sorted,
         top_deals |-> TopDeals(sorted, max_per_source)]

(* What a GET can bring *)

\* html = await response.text(): a deals page, a captcha page, a robot
\* check, an access denied page, each a character short of and at the length
\* limit
Bodies ==
    {[len |-> n, text |-> t] :
        n \in {ShortBody - 1, ShortBody},
        t \in { <<"D", "e", "a", "l", "s">>,
                <<"C", "a", "p", "t", "c", "h", "a">>,
                <<"R", "O", "B", "O", "T">>,
                <<"A", "c", "c", "e", "s", "s", " ", "D", "e", "n", "i", "e", "d">> }}

\* the candidates _parse_amazon_deals finds in a page
FetchPages ==
    { <<>>,
      <<Deal("B000000001", Txt25Off, 46, 1200)>>,
      <<Deal("B000000002", TxtLimited, 40, 50), Deal("B000000001", Txt10Off, 35, 10)>> }

NoBody ==
    [len |-> 0, text |-> <<>>]

HttpOutcomes ==
    {[kind |-> "response", status |-> 200, html |-> b, deals |-> p] :
        b \in Bodies, p \in FetchPages}
    \cup {[kind |-> "response", status |-> s, html |-> NoBody,
           deals |-> <<Deal("B000000001", Txt25Off, 46, 1200)>>] : s \in {429, 404, 503}}
    \cup {[kind |-> k, status |-> 0, html |-> NoBody, deals |-> <<>>] :
              k \in {"timeout", "error"}}

PublicOperations ==
    {"scrape_real_amazon_deals", "get_sample_deals", "search_products_by_keyword",
     "get_deal_of_the_day"}

WalksSources(o) ==
    o \in {"scrape_real_amazon_deals", "get_sample_deals"}

InitFetch ==
    /\ max_deals_per_source \in MaxDealsPerSourceChoices
    /\ deal_timestamps = EmptyMap
    /\ now = 0
    /\ InitRun
    /\ InitScoreOff
    /\ InitExtractOff
    /\ InitFetchOff
    /\ InitLinkOff
    /\ InitBatchOff
    /\ InitFnOff

\* a public operation is called (lines 71-74, 158-172, 193-201, 757)
CallOperation ==
    /\ pc = "idle"
    /\ op = "none"
    /\ \E o \in PublicOperations : op' = o
    /\ pc' = "fetching"
    /\ UNCHANGED <<src_idx, all_deals, unique_deals, catchy_deals, scored_deals, top_deals>>
    /\ UNCHANGED <<attempt, retry_delay, gets, sleeps, fetched, contributed, exhausted,
                   caught, raised, result, last_get>>
    /\ UNCHANGED <<instVars, scoreVars, extractVars, linkVars, batchVars, fnVars>>

\* what one GET of _scrape_source does to the state of _scrape_source itself
SourceBookkeeping(o, ret) ==
    /\ gets' = IF attempt = 0 THEN 1 ELSE gets + 1
    /\ fetched' = IF attempt = 0 THEN Append(fetched, src_idx) ELSE fetched
    /\ caught' = caught \cup HandlerOf(o)
    /\ last_get' = <<[kind |-> o.kind, status |-> o.status, html |-> o.html,
                      parsed |-> ret.parsed]>>
    /\ IF ret.next = "continue"
       THEN /\ attempt' = attempt + 1
            /\ retry_delay' = ret.retry_delay
            /\ UNCHANGED <<contributed, exhausted, raised>>
       ELSE /\ attempt' = 0
            /\ retry_delay' = InitialRetryDelay
            /\ contributed' = Append(contributed, ret.deals)
            /\ exhausted' = IF ret.parsed THEN exhausted ELSE exhausted \cup {src_idx}
            /\ raised' = IF ret.next = "raise" THEN raised \cup {"_scrape_source"}
                         ELSE raised

SleepsSoFar ==
    IF attempt = 0 THEN <<>> ELSE sleeps

\* scrape_real_amazon_deals, lines 76-87: one GET of the source at src_idx
\* and what follows it up to the next suspension
FetchSource ==
    /\ pc = "fetching"
    /\ WalksSources(op)
    /\ src_idx \in AmazonSources
    /\ \E o \in HttpOutcomes :
          LET ret == AttemptSource(o, attempt, retry_delay)
              after == AfterSource(src_idx, all_deals, ret)
          IN  /\ SourceBookkeeping(o, ret)
              /\ IF ret.next = "continue"
                 THEN /\ sleeps' = SleepsSoFar \o ret.sleeps
                      /\ UNCHANGED <<src_idx, all_deals>>
                 ELSE /\ sleeps' = SleepsSoFar \o after.sleeps
                      /\ src_idx' = after.src_idx
                      /\ all_deals' = after.all_deals
    /\ UNCHANGED <<pc, op, result, unique_deals, catchy_deals, scored_deals, top_deals>>
    /\ UNCHANGED <<instVars, scoreVars, extractVars, linkVars, batchVars, fnVars>>

\* lines 89-146, and lines 759-766 when get_sample_deals made the call
RankAndReturn ==
    /\ pc = "fetching"
    /\ WalksSources(op)
    /\ src_idx \notin AmazonSources
    /\ LET run == RankedDeals(all_deals, deal_timestamps, now, max_deals_per_source)
       IN  /\ deal_timestamps' = run.stamps
           /\ unique_deals' = run.unique_deals
           /\ catchy_deals' = run.catchy_deals
           /\ scored_deals' = run.scored_deals
           /\ top_deals' = run.top_deals
           /\ result' = run.top_deals
    /\ pc' = "done"
    /\ UNCHANGED <<max_deals_per_source, now, src_idx, all_deals>>
    /\ UNCHANGED <<op, attempt, retry_delay, gets, sleeps, fetched, contributed, exhausted,
                   caught, raised, last_get>>
    /\ UNCHANGED <<scoreVars, extractVars, linkVars, batchVars, fnVars>>

\* search_products_by_keyword, lines 174-189: one GET of the search URL
FetchSearch ==
    /\ pc = "fetching"
    /\ op = "search_products_by_keyword"
    /\ \E o \in HttpOutcomes :
          LET ret == AttemptSource(o, attempt, retry_delay)
          IN  /\ SourceBookkeeping(o, ret)
              /\ sleeps' = SleepsSoFar \o ret.sleeps
              /\ IF ret.next = "continue"
                 THEN UNCHANGED <<pc, result>>
                 ELSE /\ result' = SearchFilter(ret)
                      /\ pc' = "done"
    /\ UNCHANGED <<op, src_idx, all_deals, unique_deals, catchy_deals, scored_deals, top_deals>>
    /\ UNCHANGED <<instVars, scoreVars, extractVars, linkVars, batchVars, fnVars>>

\* get_deal_of_the_day, lines 203-222: one GET of the URL at src_idx; the
\* result is a 0/1-length sequence, empty for None
FetchDealOfDay ==
    /\ pc = "fetching"
    /\ op = "get_deal_of_the_day"
    /\ src_idx \in deal_of_day_urls
    /\ \E o \in HttpOutcomes :
          LET ret == AttemptSource(o, attempt, retry_delay)
          IN  /\ SourceBookkeeping(o, ret)
              /\ sleeps' = SleepsSoFar \o ret.sleeps
              /\ IF ret.next = "continue"
                 THEN UNCHANGED <<pc, result, src_idx>>
                 ELSE IF ret.next = "return" /\ ret.deals # <<>>
                 THEN /\ result' = <<ret.deals[1]>>
                      /\ pc' = "done"
                      /\ UNCHANGED src_idx
                 ELSE /\ result' = <<>>
                      /\ src_idx' = src_idx + 1
                      /\ pc' = IF src_idx + 1 \in deal_of_day_urls THEN "fetching" ELSE "done"
    /\ UNCHANGED <<op, all_deals, unique_deals, catchy_deals, scored_deals, top_deals>>
    /\ UNCHANGED <<instVars, scoreVars, extractVars, linkVars, batchVars, fnVars>>

NextFetch ==
    \/ CallOperation
    \/ FetchSource
    \/ RankAndReturn
    \/ FetchSearch
    \/ FetchDealOfDay

SpecFetch ==
    InitFetch /\ [][NextFetch]_vars

----------------------------------------------------------------------------
(* Claims about the fetches *)

RECURSIVE Flatten(_)
\* the concatenation of a sequence of sequences
Flatten(qs) ==
    IF qs = <<>> THEN <<>> ELSE Head(qs) \o Flatten(Tail(qs))

\* what the sources outside S handed back, in source order
FromOtherSources(S) ==
    Flatten([i \in DOMAIN contributed |->
                 IF fetched[i] \in S THEN <<>> ELSE contributed[i]])

\* C11: when a run over the configured sources has returned, every source
\* was fetched, once each and in configured order; a source whose fetch ran
\* out of attempts handed back no candidate; and the list the run returns is
\* the ranking of the candidates of the other sources.
C11_FailedSourceIsLocal ==
    (pc = "done" /\ WalksSources(op)) =>
        /\ fetched = [i \in 1..NumSources |-> i]
        /\ Len(contributed) = NumSources
        /\ \A s \in exhausted : contributed[s] = <<>>
        /\ all_deals = FromOtherSources(exhausted)
        /\ result = RankedDeals(FromOtherSources(exhausted), EmptyMap, 0,
                                max_deals_per_source).top_deals

\* a run whose first source ran out of attempts and whose result comes from
\* a later source
C11_Witness ==
    /\ pc = "done"
    /\ op = "scrape_real_amazon_deals"
    /\ 1 \in exhausted
    /\ NumSources \notin exhausted
    /\ result # <<>>

\* C12: whatever the GETs bring (any status, any body, a timeout, any other
\* exception), no exception leaves _scrape_source, a call in progress is
\* within its three attempts on a URL it has yet to fetch or about to rank,
\* and a public operation that has finished has handed back a list of
\* records, possibly the empty one.
C12_NeverRaises ==
    /\ raised = {}
    /\ attempt \in 0..(SourceMaxRetries - 1)
    /\ (pc = "fetching" /\ op = "get_deal_of_the_day") => src_idx \in deal_of_day_urls
    /\ (pc = "fetching" /\ WalksSources(op)) => src_idx \in 1..(NumSources + 1)
    /\ pc = "done" => result \in Seq(Catalog)

\* a search that met a timeout and another exception, ran out of attempts
\* and returned the empty list
C12_Witness ==
    /\ pc = "done"
    /\ op = "search_products_by_keyword"
    /\ caught = {"TimeoutError", "Exception"}
    /\ exhausted = {1}
    /\ result = <<>>

----------------------------------------------------------------------------
(* URLs: urllib.parse.urlparse and parse_qs on texts without "%", ";" and  *)
(* white space, and the checks LinkValidator builds on them                *)

SchemeChars ==
    LowerSet \cup UpperSet \cup DigitSet \cup {"+", "-", "."}

\* the first index from k on of a character in cs, Len(s) + 1 when none
IndexOfChar(s, cs, k) ==
    IF \E i \in k..Len(s) : s[i] \in cs
    THEN CHOOSE i \in k..Len(s) : s[i] \in cs /\ \A h \in k..(i - 1) : s[h] \notin cs
    ELSE Len(s) + 1

\* s[k:]
From(s, k) ==
    SubSeq(s, k, Len(s))

\* str.startswith
StartsWith(s, w) ==
    Len(s) >= Len(w) /\ SubSeq(s, 1, Len(w)) = w

\* urlparse(url): scheme, netloc, path, query, fragment, and whether it
\* raises ValueError (a netloc with one bracket of a pair)
UrlParse(u) ==
    LET colon == IndexOfChar(u, {":"}, 1)
        has_scheme == /\ colon > 1
                      /\ colon <= Len(u)
                      /\ (IsUpper(u[1]) \/ IsLower(u[1]))
                      /\ \A k \in 1..(colon - 1) : u[k] \in SchemeChars
        after_scheme == IF has_scheme THEN From(u, colon + 1) ELSE u
        has_netloc == StartsWith(after_scheme, <<"/", "/">>)
        delim == IndexOfChar(after_scheme, {"/", "?", "#"}, 3)
        netloc == IF has_netloc THEN SubSeq(after_scheme, 3, delim - 1) ELSE <<>>
        after_netloc == IF has_netloc THEN From(after_scheme, delim) ELSE after_scheme
        hash == IndexOfChar(after_netloc, {"#"}, 1)
        before_hash == SubSeq(after_netloc, 1, hash - 1)
        mark == IndexOfChar(before_hash, {"?"}, 1)
    IN  [scheme |-> IF has_scheme THEN Lower(SubSeq(u, 1, colon - 1)) ELSE <<>>,
         netloc |-> netloc,
         path |-> SubSeq(before_hash, 1, mark - 1),
         query |-> From(before_hash, mark + 1),
         fragment |-> From(after_netloc, hash + 1),
         raises |-> (\E i \in DOMAIN netloc : netloc[i] = "[")
                        # (\E i \in DOMAIN netloc : netloc[i] = "]")]

\* lines 230-236
IsValidUrlFormat(u) ==
    LET parsed == UrlParse(u)
    IN  ~parsed.raises /\ parsed.scheme # <<>> /\ parsed.netloc # <<>>

\* lines 242-246
amazon_domains ==
    { <<"a", "m", "a", "z", "o", "n", ".", "c", "o", "m">>, <<"a", "m", "a", "z", "o", "n", ".", "c", "o", ".", "u", "k">>,
      <<"a", "m", "a", "z", "o", "n", ".", "d", "e">>, <<"a", "m", "a", "z", "o", "n", ".", "f", "r">>,
      <<"a", "m", "a", "z", "o", "n", ".", "i", "t">>, <<"a", "m", "a", "z", "o", "n", ".", "e", "s">>,
      <<"a", "m", "a", "z", "o", "n", ".", "c", "a">>, <<"a", "m", "a", "z", "o", "n", ".", "c", "o", "m", ".", "m", "x">>,
      <<"a", "m", "a", "z", "o", "n", ".", "c", "o", "m", ".", "b", "r">>, <<"a", "m", "a", "z", "o", "n", ".", "i", "n">>,
      <<"a", "m", "a", "z", "o", "n", ".", "c", "o", ".", "j", "p">>, <<"a", "m", "a", "z", "o", "n", ".", "c", "o", "m", ".", "a", "u">> }

WWW == <<"w", "w", "w", ".">>

\* re.search(r'/(?:dp|gp/product)/([A-Z0-9]{10})', path): group(1) of the
\* leftmost match, None without a match
PathAsin(path) ==
    LET MatchAt(i) == AsinMatchAt(path, DP, i) \/ AsinMatchAt(path, GP_PRODUCT, i)
        GroupAt(i) == IF AsinMatchAt(path, DP, i)
                      THEN SubSeq(path, i + Len(DP), i + Len(DP) + 9)
                      ELSE SubSeq(path, i + Len(GP_PRODUCT), i + Len(GP_PRODUCT) + 9)
    IN  IF \E i \in 1..Len(path) : MatchAt(i)
        THEN GroupAt(CHOOSE i \in 1..Len(path) :
                         MatchAt(i) /\ \A h \in 1..(i - 1) : ~MatchAt(h))
        ELSE None

\* lines 238-270 without the host test of line 252
IsAmazonLinkAnyHost(u) ==
    LET parsed == UrlParse(u)
        asin == PathAsin(parsed.path)
    IN  /\ ~parsed.raises
        /\ (asin # None =>
                (Len(asin) = 10 /\ \A i \in DOMAIN asin : IsUpperOrDigit(asin[i])))

\* lines 238-270
IsAmazonLink(u) ==
    LET parsed == UrlParse(u)
        lowered == Lower(parsed.netloc)
        domain == IF StartsWith(lowered, WWW) THEN From(lowered, 5) ELSE lowered
        is_amazon == domain \in amazon_domains
        asin == PathAsin(parsed.path)
    IN  /\ ~parsed.raises
        /\ is_amazon
        /\ (asin # None =>
                (Len(asin) = 10 /\ \A i \in DOMAIN asin : IsUpperOrDigit(asin[i])))

TAG == <<"t", "a", "g">>

\* unquote of a query name or value that holds no "%": "+" is a space
PlusToSpace(s) ==
    [i \in DOMAIN s |-> IF s[i] = "+" THEN " " ELSE s[i]]

RECURSIVE FirstTagValue(_)
\* parse_qs(query).get('tag', [])[:1]: the value of the first tag=value
\* field with a value, None when there is none
FirstTagValue(query) ==
    IF query = <<>> THEN None
    ELSE LET amp == IndexOfChar(query, {"&"}, 1)
             field == SubSeq(query, 1, amp - 1)
             eq == IndexOfChar(field, {"="}, 1)
             name == PlusToSpace(SubSeq(field, 1, eq - 1))
             value == PlusToSpace(From(field, eq + 1))
         IN  IF eq <= Len(field) /\ name = TAG /\ value # <<>>
             THEN value
             ELSE FirstTagValue(From(query, amp + 1))

\* lines 272-299: the first component of the returned pair
VerifyAffiliateTag(u, expected_tag) ==
    IF Falsy(u) \/ Falsy(expected_tag) THEN FALSE
    ELSE IF UrlParse(u).raises THEN FALSE
    ELSE FirstTagValue(UrlParse(u).query) = expected_tag

----------------------------------------------------------------------------
(* LinkValidator.validate_link (src/link_validator.py), request by         *)
(* request.  Times are whole seconds on the event loop's clock, counted    *)
(* from start_time; an absent status_code or error_message is the empty    *)
(* sequence, a present one a sequence of length one.                       *)

\* line 161 and line 174: asyncio.sleep(1)
RetryPause == 1
\* line 96
SuccessStatuses ==
    {200, 206, 416}

\* the dataclass of lines 10-18
LinkValidationResult(u, is_valid, status_code, error_message, redirect_url, rt) ==
    [url |-> u, is_valid |-> is_valid, status_code |-> status_code,
     error_message |-> error_message, redirect_url |-> redirect_url,
     response_time |-> rt]

ErrorMessage(text, code) ==
    <<[text |-> text, code |-> code]>>

\* lines 76-80 and 83-87
Rejected(u, text) ==
    LinkValidationResult(u, FALSE, <<>>, ErrorMessage(text, 0), None, 0)

\* lines 110-116 and 132-138 with redirect_url always filled in
AcceptedAlwaysRedirect(u, status, final_url, rt) ==
    LinkValidationResult(u, TRUE, <<status>>, <<>>, final_url, rt)

\* lines 110-116 and 132-138
Accepted(u, status, final_url, rt) ==
    LinkValidationResult(u, TRUE, <<status>>, <<>>,
                         IF final_url # u THEN final_url ELSE None, rt)

\* lines 97-116 with a failed tag check turned into a failed validation
OnAcceptedTagRequired(u, status, final_url, rt, expected_tag) ==
    LET tag_valid == Falsy(expected_tag) \/ VerifyAffiliateTag(final_url, expected_tag)
    IN  [result |-> [Accepted(u, status, final_url, rt) EXCEPT !.is_valid = tag_valid],
         warned |-> ~tag_valid]

\* lines 97-116 and 120-138: the result for a success status and whether
\* the tag check logged a warning
OnAccepted(u, status, final_url, rt, expected_tag) ==
    LET tag_valid == Falsy(expected_tag) \/ VerifyAffiliateTag(final_url, expected_tag)
    IN  [result |-> Accepted(u, status, final_url, rt),
         warned |-> ~tag_valid]

\* lines 141-147 and 150-156 with the error message left out
FailedWithoutMessage(u, status, rt) ==
    LinkValidationResult(u, FALSE, <<status>>, <<>>, None, rt)

\* lines 141-147 and 150-156
Failed(u, status, rt) ==
    LinkValidationResult(u, FALSE, <<status>>, ErrorMessage("HTTP", status), None, rt)

\* lines 158-182 pausing after the last attempt as well
OnTransportFailurePauseLast(kind, n, retries) ==
    IF n < retries
    THEN [next |-> "continue", pauses |-> <<RetryPause>>, error_message |-> <<>>]
    ELSE [next |-> "return", pauses |-> <<RetryPause>>,
          error_message |-> IF kind = "timeout" THEN ErrorMessage("Request timeout", 0)
                            ELSE ErrorMessage("Client error", 0)]

\* lines 158-182: the handlers of asyncio.TimeoutError and
\* aiohttp.ClientError on attempt n
OnTransportFailure(kind, n, retries) ==
    IF n < retries
    THEN [next |-> "continue", pauses |-> <<RetryPause>>, error_message |-> <<>>]
    ELSE [next |-> "return", pauses |-> <<>>,
          error_message |-> IF kind = "timeout" THEN ErrorMessage("Request timeout", 0)
                            ELSE ErrorMessage("Client error", 0)]

\* the clock when a pause is not waited for
AfterPausesNoWait(t, ps, overshoot) ==
    t

\* the loop's clock after the pauses ps (none or one), each of which may
\* last overshoot seconds longer than asked
AfterPauses(t, ps, overshoot) ==
    IF ps = <<>> THEN t ELSE t + ps[1] + overshoot

(* Inputs *)

\* URLs handed to validate_link and URLs a response can come from
Link ==
    [ plain |->
          <<"h", "t", "t", "p", "s", ":", "/", "/", "a", "m", "a", "z", "o", "n", ".", "i",
          "n", "/", "d", "p", "/", "B", "0", "0", "0", "0", "0", "0", "0", "0", "1">>,
      tagged |->
          <<"h", "t", "t", "p", "s", ":", "/", "/", "w", "w", "w", ".", "a", "m", "a", "z",
          "o", "n", ".", "d", "e", "/", "d", "p", "/", "B", "0", "0", "0", "0", "0",
          "0", "0", "0", "1", "?", "t", "a", "g", "=", "a", "-", "2", "0">>,
      upper_host |->
          <<"H", "T", "T", "P", "S", ":", "/", "/", "W", "W", "W", ".", "A", "M", "A", "Z",
          "O", "N", ".", "I", "N", "/", "b">>,
      no_scheme |->
          <<"a", "m", "a", "z", "o", "n", ".", "i", "n", "/", "d", "p", "/", "B", "0", "0",
          "0", "0", "0", "0", "0", "0", "1">>,
      no_host |->
          <<"h", "t", "t", "p", "s", ":", "/", "/", "/", "d", "p", "/", "B", "0", "0", "0",
          "0", "0", "0", "0", "0", "1">>,
      scheme_relative |->
          <<"/", "/", "a", "m", "a", "z", "o", "n", ".", "i", "n", "/", "b">>,
      other_host |->
          <<"h", "t", "t", "p", "s", ":", "/", "/", "e", "v", "i", "l", ".", "i", "n", "/",
          "a", "m", "a", "z", "o", "n", ".", "i", "n">>,
      lookalike |->
          <<"h", "t", "t", "p", "s", ":", "/", "/", "a", "m", "a", "z", "o", "n", ".", "i",
          "n", ".", "e", "v", "i", "l", ".", "i", "n", "/", "b">>,
      redirected_other_tag |->
          <<"h", "t", "t", "p", "s", ":", "/", "/", "a", "m", "a", "z", "o", "n", ".", "i",
          "n", "/", "b", "?", "t", "a", "g", "=", "b", "-", "2", "1">>,
      redirected_tagged |->
          <<"h", "t", "t", "p", "s", ":", "/", "/", "a", "m", "a", "z", "o", "n", ".", "i",
          "n", "/", "b", "?", "x", "=", "1", "&", "t", "a", "g", "=", "a", "-", "2", "0">> ]

TagA20 == <<"a", "-", "2", "0">>

ValidateUrls ==
    {Link.plain, Link.tagged, Link.upper_host, Link.no_scheme, Link.no_host, Link.scheme_relative,
     Link.other_host, Link.lookalike}

\* values of the constructor argument max_retries (default 2)
MaxRetriesChoices ==
    {0, 2}

\* str(response.url) for a request of u
FinalUrls(u) ==
    {u, Link.redirected_other_tag, Link.redirected_tagged}

\* what a GET of u can bring, dur seconds after it was issued
GetOutcomes(u) ==
    {[kind |-> "response", status |-> s, final_url |-> f, dur |-> d] :
        s \in {200, 206, 416, 405, 404}, f \in FinalUrls(u), d \in {0, 1}}
    \cup {[kind |-> k, status |-> 0, final_url |-> None, dur |-> d] :
              k \in {"timeout", "client_error", "unexpected"}, d \in {0, 1}}

SleepOvershoots ==
    {0, 1}

\* an entry of the log of requests: the request and what it brought
Request(method, o) ==
    [method |-> method, kind |-> o.kind, status |-> o.status]

InitValidate ==
    /\ max_deals_per_source = 5
    /\ deal_timestamps = EmptyMap
    /\ now = 0
    /\ InitRun
    /\ InitScoreOff
    /\ InitExtractOff
    /\ InitFetchOff
    /\ InitBatchOff
    /\ InitFnOff
    /\ lv_pc = "ready"
    /\ url \in ValidateUrls
    /\ max_retries \in MaxRetriesChoices
    /\ expected_affiliate_tag \in {None, TagA20}
    /\ v_attempt = 0
    /\ requests = <<>>
    /\ pauses = <<>>
    /\ clock = 0
    /\ response = NoResponse
    /\ response_time = 0
    /\ validation = <<>>
    /\ validation_untagged = <<>>
    /\ tag_warnings = 0

\* lines 69-87: the call up to its first request
CallValidateLink ==
    /\ lv_pc = "ready"
    /\ IF ~IsValidUrlFormat(url)
       THEN /\ validation' = <<Rejected(url, "Invalid URL format")>>
            /\ lv_pc' = "returned"
       ELSE IF ~IsAmazonLink(url)
       THEN /\ validation' = <<Rejected(url, "Not an Amazon link")>>
            /\ lv_pc' = "returned"
       ELSE /\ validation' = <<>>
            /\ lv_pc' = "probing"
    /\ validation_untagged' = validation'
    /\ UNCHANGED <<url, max_retries, expected_affiliate_tag, v_attempt, requests, pauses,
                   clock, response, response_time, tag_warnings>>
    /\ UNCHANGED <<instVars, runVars, scoreVars, extractVars, fetchVars, batchVars, fnVars>>

\* the result of the call is r, and ru for a validator without expected tag
Return(r, ru, warned) ==
    /\ validation' = <<r>>
    /\ validation_untagged' = <<ru>>
    /\ tag_warnings' = IF warned THEN tag_warnings + 1 ELSE tag_warnings
    /\ lv_pc' = "returned"
    /\ UNCHANGED <<v_attempt, pauses>>

\* lines 184-191: the result of the outer handler, rt seconds after
\* the call began
OnUnexpectedError(u, rt) ==
    LinkValidationResult(u, FALSE, <<>>, ErrorMessage("Unexpected error", 0), None, rt)

\* lines 184-191: an attempt that ended at time t in an exception which is
\* neither a timeout nor a client error
HandleUnexpectedError(t) ==
    /\ Return(OnUnexpectedError(url, t), OnUnexpectedError(url, t), FALSE)
    /\ clock' = t
    /\ UNCHANGED <<response, response_time>>

\* lines 158-182: an attempt that ended in a timeout or a client error at
\* time t
HandleTransportFailure(o, t) ==
    \E overshoot \in SleepOvershoots :
        LET h == OnTransportFailure(o.kind, v_attempt, max_retries)
        IN  /\ pauses' = pauses \o h.pauses
            /\ clock' = AfterPauses(t, h.pauses, overshoot)
            /\ UNCHANGED <<response, response_time, tag_warnings>>
            /\ IF h.next = "continue"
               THEN /\ v_attempt' = v_attempt + 1
                    /\ lv_pc' = "probing"
                    /\ UNCHANGED <<validation, validation_untagged>>
               ELSE /\ validation' =
                           <<LinkValidationResult(url, FALSE, <<>>, h.error_message, None, t)>>
                    /\ validation_untagged' = validation'
                    /\ lv_pc' = "returned"
                    /\ UNCHANGED v_attempt

\* lines 89-116 and 148-182: one attempt's request with the Range header
Probe ==
    /\ lv_pc = "probing"
    /\ \E o \in GetOutcomes(url) :
          /\ requests' = Append(requests, Request("range", o))
          /\ IF o.kind = "response"
             THEN /\ response' = o
                  /\ response_time' = clock + o.dur
                  /\ clock' = clock + o.dur
                  /\ IF o.status \in SuccessStatuses
                     THEN LET a == OnAccepted(url, o.status, o.final_url, clock + o.dur,
                                              expected_affiliate_tag)
                              au == OnAccepted(url, o.status, o.final_url, clock + o.dur, None)
                          IN  Return(a.result, au.result, a.warned)
                     ELSE IF o.status = 405
                     THEN /\ lv_pc' = "fallback"
                          /\ UNCHANGED <<validation, validation_untagged, tag_warnings,
                                         v_attempt, pauses>>
                     ELSE Return(Failed(url, o.status, clock + o.dur),
                                 Failed(url, o.status, clock + o.dur), FALSE)
             ELSE IF o.kind = "unexpected"
             THEN HandleUnexpectedError(clock + o.dur)
             ELSE HandleTransportFailure(o, clock + o.dur)
    /\ UNCHANGED <<url, max_retries, expected_affiliate_tag>>
    /\ UNCHANGED <<instVars, runVars, scoreVars, extractVars, fetchVars, batchVars, fnVars>>

\* lines 118-147 and 158-182: the full GET that follows a 405
Fallback ==
    /\ lv_pc = "fallback"
    /\ \E o \in GetOutcomes(url) :
          /\ requests' = Append(requests, Request("full", o))
          /\ IF o.kind = "response"
             THEN /\ response' = o
                  /\ clock' = clock + o.dur
                  /\ UNCHANGED response_time
                  /\ IF o.status = 200
                     THEN LET a == OnAccepted(url, o.status, o.final_url, response_time,
                                              expected_affiliate_tag)
                              au == OnAccepted(url, o.status, o.final_url, response_time, None)
                          IN  Return(a.result, au.result, a.warned)
                     ELSE Return(Failed(url, o.status, response_time),
                                 Failed(url, o.status, response_time), FALSE)
             ELSE IF o.kind = "unexpected"
             THEN HandleUnexpectedError(clock + o.dur)
             ELSE HandleTransportFailure(o, clock + o.dur)
    /\ UNCHANGED <<url, max_retries, expected_affiliate_tag>>
    /\ UNCHANGED <<instVars, runVars, scoreVars, extractVars, fetchVars, batchVars, fnVars>>

NextValidate ==
    \/ CallValidateLink
    \/ Probe
    \/ Fallback

SpecValidate ==
    InitValidate /\ [][NextValidate]_vars

----------------------------------------------------------------------------
(* Claims about validate_link *)

\* the host of u with an optional leading "www." removed
BareHost(u) ==
    LET host == Lower(UrlParse(u).netloc)
    IN  IF StartsWith(host, WWW) THEN From(host, 5) ELSE host

LacksSchemeOrHost(u) ==
    UrlParse(u).scheme = <<>> \/ UrlParse(u).netloc = <<>>

\* C13: once validate_link has started on a URL without scheme or without
\* host, or on one whose host is not an allow-listed domain, it has already
\* returned: is_valid is false, the error is "Invalid URL format" in the
\* first case and "Not an Amazon link" in the second, and no request was
\* issued, no pause made and no time spent.
C13_RejectedImmediately ==
    (lv_pc \notin {"off", "ready"}
        /\ (LacksSchemeOrHost(url) \/ BareHost(url) \notin amazon_domains)) =>
        /\ lv_pc = "returned"
        /\ validation =
               <<Rejected(url, IF LacksSchemeOrHost(url) THEN "Invalid URL format"
                               ELSE "Not an Amazon link")>>
        /\ ~validation[1].is_valid
        /\ requests = <<>>
        /\ pauses = <<>>
        /\ clock = 0

\* a URL whose path, not its host, names an Amazon domain was turned away
C13_Witness ==
    /\ lv_pc = "returned"
    /\ url = Link.other_host
    /\ validation[1].error_message = ErrorMessage("Not an Amazon link", 0)
    /\ requests = <<>>

\* the newest entry of the log of requests
LastRequest ==
    requests[Len(requests)]

\* the newest request was a ranged one, answered with a status other than 405
RangedAnswered ==
    /\ requests # <<>>
    /\ LastRequest.method = "range"
    /\ LastRequest.kind = "response"
    /\ LastRequest.status # 405

\* C14: a response to the ranged request with status 200, 206 or 416 makes
\* the result valid with that status, and redirect_url is the final URL if
\* that differs from the input and absent if not; a response with any other
\* status except 405 makes the result invalid with that status; either way
\* the call has returned, and a call that has returned issues no request.
C14_StatusDecides ==
    /\ [](RangedAnswered =>
            /\ lv_pc = "returned"
            /\ validation[1].status_code = <<response.status>>
            /\ validation[1].is_valid = (response.status \in {200, 206, 416})
            /\ validation[1].is_valid =>
                   validation[1].redirect_url =
                       IF response.final_url # url THEN response.final_url ELSE None)
    /\ [][lv_pc = "returned" => requests' = requests]_vars

\* a 206 that arrived from another URL than the one asked for
C14_Witness ==
    /\ lv_pc = "returned"
    /\ RangedAnswered
    /\ response.status = 206
    /\ validation[1].is_valid
    /\ validation[1].redirect_url = Link.redirected_other_tag
    /\ url = Link.plain

\* the entries of the log that are full GETs
FullGets ==
    {i \in DOMAIN requests : requests[i].method = "full"}

\* C15: a validation in which a ranged request was answered with 405 has,
\* once it has returned, issued exactly one full GET, and its result is
\* valid exactly if that full GET was answered with 200.
C15_OneFullGet ==
    (lv_pc = "returned"
        /\ \E i \in DOMAIN requests :
               requests[i].method = "range" /\ requests[i].status = 405) =>
        /\ Cardinality(FullGets) = 1
        /\ validation[1].is_valid =
               (\E i \in FullGets : requests[i].kind = "response" /\ requests[i].status = 200)

\* the entries of the log that are ranged GETs: one per attempt
Attempts ==
    {i \in DOMAIN requests : requests[i].method = "range"}

\* the newest request ended in a timeout or a client error
LastFailedInTransport ==
    requests # <<>> /\ LastRequest.kind \in {"timeout", "client_error"}

\* C16: a validation makes at most max_retries + 1 attempts; every pause is
\* of 1 s and there is exactly one pause between two consecutive attempts;
\* a validation that returned because its last attempt ended in a timeout or
\* a client error made max_retries + 1 attempts and max_retries pauses, none
\* after the last attempt, and its result is invalid, without status, with
\* the error of that last attempt and the time elapsed since the start.
C16_BoundedRetries ==
    /\ Cardinality(Attempts) <= max_retries + 1
    /\ \A i \in DOMAIN pauses : pauses[i] = 1
    /\ Len(pauses) = IF lv_pc = "probing" THEN Cardinality(Attempts)
                     ELSE IF requests = <<>> THEN 0
                     ELSE Cardinality(Attempts) - 1
    /\ (lv_pc = "returned" /\ LastFailedInTransport) =>
           /\ Cardinality(Attempts) = max_retries + 1
           /\ Len(pauses) = max_retries
           /\ ~validation[1].is_valid
           /\ validation[1].status_code = <<>>
           /\ validation[1].error_message =
                  ErrorMessage(IF LastRequest.kind = "timeout" THEN "Request timeout"
                               ELSE "Client error", 0)
           /\ validation[1].response_time = clock

\* three attempts that ended in a timeout, a client error and a timeout
C16_Witness ==
    /\ lv_pc = "returned"
    /\ max_retries = 2
    /\ Len(requests) = 3
    /\ requests[1].kind = "timeout"
    /\ requests[2].kind = "client_error"
    /\ requests[3].kind = "timeout"
    /\ validation[1].error_message = ErrorMessage("Request timeout", 0)
    /\ pauses = <<1, 1>>

\* a returned validation of three attempts: two timeouts, then a 200
TimedOutTwiceThenOk ==
    /\ lv_pc = "returned"
    /\ max_retries = 2
    /\ Len(requests) = 3
    /\ \A i \in 1..3 : requests[i].method = "range"
    /\ requests[1].kind = "timeout"
    /\ requests[2].kind = "timeout"
    /\ requests[3].kind = "response"
    /\ requests[3].status = 200

\* C17: a validation whose first two attempts timed out and whose third
\* attempt was answered with 200 is valid, carries status 200, and reports a
\* response time of at least 2 s, the two pauses between the attempts.
C17_ThirdAttemptSucceeds ==
    TimedOutTwiceThenOk =>
        /\ validation[1].is_valid
        /\ validation[1].status_code = <<200>>
        /\ validation[1].response_time >= 2

\* the same validation with requests that took no time and pauses that
\* lasted exactly as long as asked
C17_Witness ==
    /\ TimedOutTwiceThenOk
    /\ validation[1].is_valid
    /\ validation[1].response_time = 2

\* C18: a returned validation has the same is_valid, status_code and
\* redirect_url as the validation of the same URL, fed the same network
\* outcomes, by a validator without expected affiliate tag, whether the
\* final URL carries the expected tag, another tag or none.
C18_TagCheckIsAdvisory ==
    lv_pc = "returned" =>
        /\ validation[1].is_valid = validation_untagged[1].is_valid
        /\ validation[1].status_code = validation_untagged[1].status_code
        /\ validation[1].redirect_url = validation_untagged[1].redirect_url

\* a valid result although the final URL carries another tag than expected
C18_Witness ==
    /\ lv_pc = "returned"
    /\ expected_affiliate_tag = TagA20
    /\ response.final_url = Link.redirected_other_tag
    /\ tag_warnings = 1
    /\ validation[1].is_valid

----------------------------------------------------------------------------
(* LinkValidator.validate_links_batch: one task per URL, each running      *)
(* validate_link inside the semaphore; a task is "pending" until it has    *)
(* acquired the semaphore, "holding" while its validate_link is suspended  *)
(* on the network, and "done" once it has released the semaphore.          *)

\* URLs in one batch
MaxBatch == 3

\* values of the argument max_concurrent (default 10)
MaxConcurrentChoices ==
    {1, 2}

BatchUrls ==
    {Link.plain, Link.other_host}

\* what validate_link(u) can return once the network has answered
NetworkValidations(u) ==
    {Accepted(u, 200, u, 0), Failed(u, 404, 0),
     LinkValidationResult(u, FALSE, <<>>, ErrorMessage("Request timeout", 0), None, 3)}

\* asyncio.Semaphore.acquire without the test of the counter
CanAcquireAlways(value) ==
    TRUE

\* asyncio.Semaphore.acquire returns at once when the counter is positive
\* and waits otherwise (line 206)
CanAcquire(value) ==
    value > 0

\* lines 184-191: validate_link's last handler turns an error raised inside
\* its try block into a result
UnexpectedError(u) ==
    LinkValidationResult(u, FALSE, <<>>, ErrorMessage("Unexpected error", 0), None, 0)

\* what gather(return_exceptions=True) puts in the slot of a task that ended
\* with an exception: the exception object itself (line 210)
CancelledError ==
    [exception |-> "CancelledError"]

\* an error raised by a task outside validate_link's try block (lines 69-72,
\* 205-207)
RuntimeError ==
    [exception |-> "RuntimeError"]

\* the classes below Exception; asyncio.CancelledError derives from
\* BaseException and is not one of them
ExceptionClasses ==
    {"RuntimeError"}

\* isinstance(result, Exception), line 214
IsException(r) ==
    /\ "exception" \in DOMAIN r
    /\ r.exception \in ExceptionClasses

\* lines 213-222 appending every gathered value as it is
CollectAsIs(u, r) ==
    r

\* lines 213-222 for one gathered value
Collect(u, r) ==
    IF IsException(r)
    THEN LinkValidationResult(u, FALSE, <<>>, ErrorMessage("Exception", 0), None, 0)
    ELSE r

\* lines 212-222 collecting the results in the order of completion
ValidatedResultsAsCompleted(us, rs, order) ==
    [k \in DOMAIN order |-> Collect(us[order[k]], rs[order[k]][1])]

\* lines 210-222: gather hands back the values by position
ValidatedResults(us, rs, order) ==
    [i \in DOMAIN us |-> Collect(us[i], rs[i][1])]

\* line 224 reads r.is_valid of every collected entry
HasIsValid(r) ==
    "is_valid" \in DOMAIN r

InitBatch ==
    /\ max_deals_per_source = 5
    /\ deal_timestamps = EmptyMap
    /\ now = 0
    /\ InitRun
    /\ InitScoreOff
    /\ InitExtractOff
    /\ InitFetchOff
    /\ InitLinkOff
    /\ InitFnOff
    /\ b_pc = "ready"
    /\ urls \in SeqsUpTo(BatchUrls, MaxBatch)
    /\ max_concurrent \in MaxConcurrentChoices
    /\ semaphore = 0
    /\ tasks = <<>>
    /\ results = <<>>
    /\ completion = <<>>
    /\ validated_results = <<>>

\* lines 195-210: the call up to the gather
CallValidateLinksBatch ==
    /\ b_pc = "ready"
    /\ IF urls = <<>>
       THEN /\ b_pc' = "returned"
            /\ UNCHANGED <<semaphore, tasks, results>>
       ELSE /\ b_pc' = "gathering"
            /\ semaphore' = max_concurrent
            /\ tasks' = [i \in DOMAIN urls |-> "pending"]
            /\ results' = [i \in DOMAIN urls |-> <<>>]
    /\ UNCHANGED <<urls, max_concurrent, completion, validated_results>>
    /\ UNCHANGED <<instVars, runVars, scoreVars, extractVars, fetchVars, linkVars, fnVars>>

\* lines 205-207 and 69-93: task i enters the semaphore and runs
\* validate_link up to its first request; a URL that is turned away without
\* a request is done within the same step
Acquire(i) ==
    /\ b_pc = "gathering"
    /\ tasks[i] = "pending"
    /\ CanAcquire(semaphore)
    /\ IF ~IsValidUrlFormat(urls[i]) \/ ~IsAmazonLink(urls[i])
       THEN /\ tasks' = [tasks EXCEPT ![i] = "done"]
            /\ results' = [results EXCEPT ![i] =
                   <<Rejected(urls[i], IF ~IsValidUrlFormat(urls[i]) THEN "Invalid URL format"
                                       ELSE "Not an Amazon link")>>]
            /\ completion' = Append(completion, i)
            /\ UNCHANGED semaphore
       ELSE /\ tasks' = [tasks EXCEPT ![i] = "holding"]
            /\ semaphore' = semaphore - 1
            /\ UNCHANGED <<results, completion>>
    /\ UNCHANGED <<b_pc, urls, max_concurrent, validated_results>>
    /\ UNCHANGED <<instVars, runVars, scoreVars, extractVars, fetchVars, linkVars, fnVars>>

\* lines 206-207 and 93-191: validate_link of task i returns, or an error
\* leaves the task, and the task leaves the semaphore
Release(i) ==
    /\ b_pc = "gathering"
    /\ tasks[i] = "holding"
    /\ \E r \in NetworkValidations(urls[i]) \cup {UnexpectedError(urls[i]), RuntimeError} :
           results' = [results EXCEPT ![i] = <<r>>]
    /\ tasks' = [tasks EXCEPT ![i] = "done"]
    /\ semaphore' = semaphore + 1
    /\ completion' = Append(completion, i)
    /\ UNCHANGED <<b_pc, urls, max_concurrent, validated_results>>
    /\ UNCHANGED <<instVars, runVars, scoreVars, extractVars, fetchVars, linkVars, fnVars>>

\* task i is cancelled while it waits for the semaphore or for the network:
\* CancelledError is raised inside it, "async with" gives the semaphore
\* back, and gather keeps the CancelledError as the task's value (line 210)
CancelTask(i) ==
    /\ b_pc = "gathering"
    /\ tasks[i] \in {"pending", "holding"}
    /\ tasks' = [tasks EXCEPT ![i] = "cancelled"]
    /\ results' = [results EXCEPT ![i] = <<CancelledError>>]
    /\ semaphore' = IF tasks[i] = "holding" THEN semaphore + 1 ELSE semaphore
    /\ completion' = Append(completion, i)
    /\ UNCHANGED <<b_pc, urls, max_concurrent, validated_results>>
    /\ UNCHANGED <<instVars, runVars, scoreVars, extractVars, fetchVars, linkVars, fnVars>>

Finished(i) ==
    tasks[i] \in {"done", "cancelled"}

\* lines 210-228: every task has ended and gather returns its values; the
\* count of line 224 raises AttributeError on an entry without is_valid
GatherReturns ==
    /\ b_pc = "gathering"
    /\ \A i \in DOMAIN tasks : Finished(i)
    /\ LET collected == ValidatedResults(urls, results, completion)
       IN  IF \A i \in DOMAIN collected : HasIsValid(collected[i])
           THEN /\ validated_results' = collected
                /\ b_pc' = "returned"
           ELSE /\ validated_results' = <<>>
                /\ b_pc' = "raised"
    /\ UNCHANGED <<urls, max_concurrent, semaphore, tasks, results, completion>>
    /\ UNCHANGED <<instVars, runVars, scoreVars, extractVars, fetchVars, linkVars, fnVars>>

\* the caller cancels the call while it waits at line 210: gather cancels
\* every task that has not ended and CancelledError is raised at the await,
\* which nothing in validate_links_batch catches
CancelBatch ==
    /\ b_pc = "gathering"
    /\ \E i \in DOMAIN tasks : ~Finished(i)
    /\ tasks' = [i \in DOMAIN tasks |-> IF Finished(i) THEN tasks[i] ELSE "cancelled"]
    /\ results' = [i \in DOMAIN tasks |-> IF Finished(i) THEN results[i] ELSE <<CancelledError>>]
    /\ semaphore' = max_concurrent
    /\ b_pc' = "cancelled"
    /\ UNCHANGED <<urls, max_concurrent, completion, validated_results>>
    /\ UNCHANGED <<instVars, runVars, scoreVars, extractVars, fetchVars, linkVars, fnVars>>

NextBatch ==
    \/ CallValidateLinksBatch
    \/ \E i \in DOMAIN tasks : Acquire(i)
    \/ \E i \in DOMAIN tasks : Release(i)
    \/ \E i \in DOMAIN tasks : CancelTask(i)
    \/ GatherReturns
    \/ CancelBatch

SpecBatch ==
    InitBatch /\ [][NextBatch]_vars

----------------------------------------------------------------------------
(* Claims about validate_links_batch *)

\* C19: a batch that has returned holds one result for every input URL, and
\* the result at position i is the one that the validation of the URL at
\* position i produced, with that URL in its url field, in whatever order
\* the validations completed.
C19_ResultsInInputOrder ==
    b_pc = "returned" =>
        /\ Len(validated_results) = Len(urls)
        /\ \A i \in DOMAIN urls :
               /\ validated_results[i].url = urls[i]
               /\ validated_results[i] = Collect(urls[i], results[i][1])
               /\ ~IsException(results[i][1]) => validated_results[i] = results[i][1]

\* a returned batch of different URLs whose last validation completed first
C19_Witness ==
    /\ b_pc = "returned"
    /\ Len(urls) >= 2
    /\ urls[1] # urls[Len(urls)]
    /\ completion[1] = Len(urls)
    /\ validated_results[1].url = urls[1]

Holding ==
    {i \in DOMAIN tasks : tasks[i] = "holding"}

\* C20: at no moment do more than max_concurrent validations hold the
\* semaphore, and the semaphore's counter is max_concurrent less the number
\* of holders while the batch is running.
C20_AtMostKInProgress ==
    /\ Cardinality(Holding) <= max_concurrent
    /\ b_pc = "gathering" => semaphore = max_concurrent - Cardinality(Holding)

\* the semaphore is full while another validation waits for it
C20_Witness ==
    /\ b_pc = "gathering"
    /\ Cardinality(Holding) = max_concurrent
    /\ semaphore = 0
    /\ \E i \in DOMAIN tasks : tasks[i] = "pending" /\ IsAmazonLink(urls[i])

\* the results validate_link(u) can return to a caller that validates u alone
ValidationsAlone(u) ==
    IF ~IsValidUrlFormat(u) THEN {Rejected(u, "Invalid URL format")}
    ELSE IF ~IsAmazonLink(u) THEN {Rejected(u, "Not an Amazon link")}
    ELSE NetworkValidations(u) \cup {UnexpectedError(u)}

NoneCancelled ==
    \A i \in DOMAIN tasks : tasks[i] # "cancelled"

\* validations that ended with an error: one that validate_link's last
\* handler caught, or one that left the task
EndedInError(i) ==
    \/ IsException(results[i][1])
    \/ results[i][1] = UnexpectedError(urls[i])

C22_CancelledTaskIsFailedEntry ==
    (b_pc \in {"returned", "raised"} /\ ~NoneCancelled) =>
        /\ b_pc = "returned"
        /\ Len(validated_results) = Len(urls)
        /\ \A i \in DOMAIN urls :
               tasks[i] = "cancelled" => ~validated_results[i].is_valid

\* C23: a call that was cancelled while validations were incomplete has a
\* list of results with one entry per URL, the entries of the completed
\* validations being their results and the others failed results.
C23_CancelledCallHasResults ==
    b_pc = "cancelled" =>
        /\ Len(validated_results) = Len(urls)
        /\ \A i \in DOMAIN urls :
               IF tasks[i] = "cancelled"
               THEN ~validated_results[i].is_valid
               ELSE validated_results[i] = results[i][1]

----------------------------------------------------------------------------
(* LinkValidator.get_validation_stats (lines 301-324), a function of the   *)
(* list of results alone.  The dictionary it returns is a function on its  *)
(* keys; response times are whole seconds, their rounded mean is kept in   *)
(* thousandths of a second, and success_rate is kept as a fraction.        *)

\* results in one list
MaxResults == 3

\* line 311: result.error_message or "Unknown error"
ErrorKey(r) ==
    IF r.error_message = <<>> THEN [text |-> "Unknown error", code |-> 0]
    ELSE r.error_message[1]

RECURSIVE SumOfTimes(_)
\* sum(response_times), line 315
SumOfTimes(rs) ==
    IF rs = <<>> THEN 0
    ELSE rs[1].response_time + SumOfTimes(Tail(rs))

\* line 322 without the rounding: the mean cut to whole thousandths
RoundedMeanTruncated(total, n) ==
    IF n = 0 THEN 0
    ELSE (1000 * total) \div n

\* lines 315 and 322: round(sum / len, 3), in thousandths; 0 for no times
RoundedMean(total, n) ==
    IF n = 0 THEN 0
    ELSE (2000 * total + n) \div (2 * n)

\* lines 309-312: the count of every key among the invalid results
ErrorBreakdown(invalid_results) ==
    [e \in {ErrorKey(invalid_results[i]) : i \in DOMAIN invalid_results} |->
        Cardinality({i \in DOMAIN invalid_results : ErrorKey(invalid_results[i]) = e})]

\* lines 301-324
GetValidationStats(rs) ==
    IF rs = <<>> THEN EmptyMap
    ELSE LET valid_results == SelectSeq(rs, LAMBDA r : r.is_valid)
             invalid_results == SelectSeq(rs, LAMBDA r : ~r.is_valid)
             response_times == SelectSeq(rs, LAMBDA r : r.response_time > 0)
         IN  [total_links |-> Len(rs),
              valid_links |-> Len(valid_results),
              invalid_links |-> Len(invalid_results),
              success_rate |-> [num |-> Len(valid_results) * 100, den |-> Len(rs)],
              average_response_time |->
                  RoundedMean(SumOfTimes(response_times), Len(response_times)),
              error_breakdown |-> ErrorBreakdown(invalid_results)]

\* results as validate_link and validate_links_batch build them, and one
\* built by hand without an error message
StatsResults ==
    {Accepted(Link.plain, 200, Link.plain, 0),
     Accepted(Link.plain, 200, Link.plain, 1),
     Failed(Link.plain, 404, 1),
     Failed(Link.plain, 404, 2),
     LinkValidationResult(Link.plain, FALSE, <<>>, ErrorMessage("Request timeout", 0), None, 3),
     LinkValidationResult(Link.plain, FALSE, <<>>, <<>>, None, 2)}

InitStats ==
    /\ max_deals_per_source = 5
    /\ deal_timestamps = EmptyMap
    /\ now = 0
    /\ InitRun
    /\ InitScoreOff
    /\ InitExtractOff
    /\ InitFetchOff
    /\ InitLinkOff
    /\ InitConfigOff
    /\ InitParseOff
    /\ InitSysOff
    /\ b_pc = "off"
    /\ urls = <<>>
    /\ max_concurrent = 10
    /\ semaphore = 0
    /\ tasks = <<>>
    /\ results = <<>>
    /\ completion = <<>>
    /\ validated_results \in SeqsUpTo(StatsResults, MaxResults)
    /\ st_pc = "ready"
    /\ stats = EmptyMap

\* lines 301-324: no suspension point, so one step
CallGetValidationStats ==
    /\ st_pc = "ready"
    /\ stats' = GetValidationStats(validated_results)
    /\ st_pc' = "returned"
    /\ UNCHANGED <<instVars, runVars, scoreVars, extractVars, fetchVars, linkVars, batchVars>>
    /\ UNCHANGED <<configVars, parseVars, sysVars>>

NextStats ==
    CallGetValidationStats

SpecStats ==
    InitStats /\ [][NextStats]_vars

----------------------------------------------------------------------------
(* Claims about get_validation_stats *)

StatsKeys ==
    {"total_links", "valid_links", "invalid_links", "success_rate",
     "average_response_time", "error_breakdown"}

RECURSIVE SumOfCounts(_)
SumOfCounts(f) ==
    IF DOMAIN f = {} THEN 0
    ELSE LET k == CHOOSE k \in DOMAIN f : TRUE
         IN  f[k] + SumOfCounts([x \in DOMAIN f \ {k} |-> f[x]])

Timed ==
    {i \in DOMAIN validated_results : validated_results[i].response_time # 0}

RECURSIVE SumOver(_)
SumOver(I) ==
    IF I = {} THEN 0
    ELSE LET i == CHOOSE i \in I : TRUE
         IN  validated_results[i].response_time + SumOver(I \ {i})

\* the counts of the statistics agree with the list they were computed from
CountsAgree ==
    LET n == Len(validated_results)
        valid == Cardinality({i \in DOMAIN validated_results : validated_results[i].is_valid})
    IN  /\ stats.total_links = n
        /\ stats.valid_links = valid
        /\ stats.invalid_links = n - valid
        /\ stats.total_links = stats.valid_links + stats.invalid_links
        /\ SumOfCounts(stats.error_breakdown) = stats.invalid_links
        /\ \A e \in DOMAIN stats.error_breakdown :
               stats.error_breakdown[e] =
                   Cardinality({i \in DOMAIN validated_results :
                       /\ ~validated_results[i].is_valid
                       /\ \/ validated_results[i].error_message = <<e>>
                          \/ /\ validated_results[i].error_message = <<>>
                             /\ e.text = "Unknown error"})
        /\ stats.success_rate.num * n = 100 * valid * stats.success_rate.den

\* C24 as stated: the statistics of every list of results have the six
\* fields, with counts that agree with the list and average_response_time
\* equal to the mean of the non-zero response times (0 when there are none).
C24_StatsOfEveryList ==
    st_pc = "returned" =>
        /\ DOMAIN stats = StatsKeys
        /\ CountsAgree
        /\ stats.average_response_time * Cardinality(Timed) = 1000 * SumOver(Timed)

\* C24: the statistics of the empty list are the empty dictionary; those of
\* a list with at least one result have the six fields, with counts that
\* agree with the list and average_response_time equal to the mean of the
\* non-zero response times rounded to the nearest thousandth (0 when there
\* are none).
C24_StatsOfNonEmptyList ==
    st_pc = "returned" =>
        IF validated_results = <<>>
        THEN DOMAIN stats = {}
        ELSE /\ DOMAIN stats = StatsKeys
             /\ CountsAgree
             /\ LET d == stats.average_response_time * Cardinality(Timed) - 1000 * SumOver(Timed)
                IN  /\ 2 * d <= Cardinality(Timed)
                    /\ 2 * (0 - d) <= Cardinality(Timed)

\* statistics of a list with a valid result, a result without an error
\* message, and response times whose mean is not a whole thousandth
C24_Witness ==
    /\ st_pc = "returned"
    /\ Len(validated_results) = 3
    /\ stats.valid_links = 1
    /\ \E e \in DOMAIN stats.error_breakdown : e.text = "Unknown error"
    /\ stats.average_response_time * Cardinality(Timed) # 1000 * SumOver(Timed)

----------------------------------------------------------------------------
(* Config.get_affiliate_link (src/config.py, lines 117-173), a function of *)
(* the product URL, the region and the configured affiliate ids.           *)

\* environment default of DEFAULT_REGION, line 64
DEFAULT_REGION ==
    <<"U", "S">>

\* re.match(r'^[a-zA-Z0-9\-]{10,20}$', affiliate_id), line 135
WellFormedId(id) ==
    /\ Len(id) >= 10
    /\ Len(id) <= 20
    /\ \A k \in DOMAIN id : IsAlphanumeric(id[k]) \/ id[k] = "-"

\* lines 132-133: the id of the region, the main id for an unknown region
AffiliateIdFor(reg, regional_ids, main_id) ==
    LET r == IF reg = None \/ reg = <<>> THEN DEFAULT_REGION ELSE reg
    IN  IF r \in DOMAIN regional_ids THEN regional_ids[r] ELSE main_id

\* the domains of lines 148-161 in the order of their tests
MarketplaceDomains ==
    << <<"a", "m", "a", "z", "o", "n", ".", "c", "o", ".", "u", "k">>,
       <<"a", "m", "a", "z", "o", "n", ".", "d", "e">>,
       <<"a", "m", "a", "z", "o", "n", ".", "f", "r">>,
       <<"a", "m", "a", "z", "o", "n", ".", "c", "a">>,
       <<"a", "m", "a", "z", "o", "n", ".", "c", "o", "m", ".", "a", "u">>,
       <<"a", "m", "a", "z", "o", "n", ".", "c", "o", ".", "j", "p">>,
       <<"a", "m", "a", "z", "o", "n", ".", "i", "n">> >>

\* lines 148-163: the first listed domain that occurs anywhere in the URL
DomainOf(u) ==
    IF \E k \in DOMAIN MarketplaceDomains : Contains(u, MarketplaceDomains[k])
    THEN MarketplaceDomains[CHOOSE k \in DOMAIN MarketplaceDomains :
             /\ Contains(u, MarketplaceDomains[k])
             /\ \A h \in 1..(k - 1) : ~Contains(u, MarketplaceDomains[h])]
    ELSE <<"w", "w", "w", ".", "a", "m", "a", "z", "o", "n", ".", "c", "o", "m">>

\* the query parameters of lines 165 and 168
AffiliateParams(id) ==
    <<"t", "a", "g", "=">> \o id \o
    <<"&", "l", "i", "n", "k", "C", "o", "d", "e", "=", "a", "s", "2", "&", "c", "a",
      "m", "p", "=", "1", "7", "8", "9", "&", "c", "r", "e", "a", "t", "i", "v",
      "e", "=", "9", "3", "2", "5">>

\* line 167 always starting a new query
SeparatorAlwaysNew(u) ==
    <<"?">>

\* line 167
Separator(u) ==
    IF Contains(u, <<"?">>) THEN <<"&">> ELSE <<"?">>

\* lines 140-142: the identifier after /dp/, else the one after /gp/product/
AsinOf(u) ==
    IF SearchAsin(u, DP) # None THEN SearchAsin(u, DP)
    ELSE SearchAsin(u, GP_PRODUCT)

\* lines 117-168; nothing in the try block of lines 139-168 raises on a str
GetAffiliateLink(u, reg, regional_ids, main_id) ==
    LET affiliate_id == AffiliateIdFor(reg, regional_ids, main_id)
    IN  IF u = <<>> THEN <<>>
        ELSE IF ~(StartsWith(u, <<"h", "t", "t", "p", ":", "/", "/">>) \/ StartsWith(u, <<"h", "t", "t", "p", "s", ":", "/", "/">>))
        THEN <<>>
        ELSE IF main_id = <<>> THEN u
        ELSE IF affiliate_id # <<>> /\ ~WellFormedId(affiliate_id) THEN u
        ELSE IF AsinOf(u) # None
        THEN <<"h", "t", "t", "p", "s", ":", "/", "/">> \o DomainOf(u) \o DP \o AsinOf(u)
                 \o <<"?">> \o AffiliateParams(affiliate_id)
        ELSE u \o Separator(u) \o AffiliateParams(affiliate_id)

ProductUrl ==
    [ empty |-> <<>>,
      ftp |-> <<"f", "t", "p", ":", "/", "/", "a", "m", "a", "z", "o", "n", ".", "i", "n", "/",
      "d", "e", "a", "l", "s">>,
      dp_www |-> <<"h", "t", "t", "p", "s", ":", "/", "/", "w", "w", "w", ".", "a", "m", "a", "z",
      "o", "n", ".", "i", "n", "/", "d", "p", "/", "B", "0", "0", "0", "0", "0",
      "0", "0", "0", "1">>,
      dp_query |-> <<"h", "t", "t", "p", "s", ":", "/", "/", "w", "w", "w", ".", "a", "m", "a", "z",
      "o", "n", ".", "i", "n", "/", "d", "p", "/", "B", "0", "0", "0", "0", "0",
      "0", "0", "0", "1", "?", "t", "h", "=", "1">>,
      gp_http |-> <<"h", "t", "t", "p", ":", "/", "/", "a", "m", "a", "z", "o", "n", ".", "c", "o",
      "m", "/", "g", "p", "/", "p", "r", "o", "d", "u", "c", "t", "/", "B", "0",
      "0", "0", "0", "0", "0", "0", "0", "1">>,
      deals |-> <<"h", "t", "t", "p", "s", ":", "/", "/", "a", "m", "a", "z", "o", "n", ".", "i",
      "n", "/", "d", "e", "a", "l", "s">>,
      search |-> <<"h", "t", "t", "p", "s", ":", "/", "/", "a", "m", "a", "z", "o", "n", ".", "i",
      "n", "/", "s", "?", "k", "=", "t", "v">>,
      dp_lower |-> <<"h", "t", "t", "p", "s", ":", "/", "/", "a", "m", "a", "z", "o", "n", ".", "d",
      "e", "/", "d", "p", "/", "b", "0", "0", "0", "0", "0", "0", "0", "0", "1">>,
      search_tagged |-> <<"h", "t", "t", "p", "s", ":", "/", "/", "a", "m", "a", "z", "o", "n", ".", "i", "n", "/", "s", "?", "t", "a", "g", "=", "o", "t", "h", "e", "r", "-", "2", "1">>,
      deals_fragment |-> <<"h", "t", "t", "p", "s", ":", "/", "/", "a", "m", "a", "z", "o", "n", ".", "i", "n", "/", "d", "e", "a", "l", "s", "#", "t", "o", "p">> ]

AffiliateId ==
    [ main |-> <<"a", "f", "f", "i", "l", "i", "a", "t", "e", "-", "2", "0">>,
      regional |-> <<"r", "e", "g", "i", "o", "n", "a", "l", "-", "2", "1">>,
      short |-> <<"a", "-", "2", "0">>,
      unset |-> <<>> ]

Region ==
    [ us |-> <<"U", "S">>, india |-> <<"I", "N">>, unknown |-> <<"M", "X">> ]

InitConfig ==
    /\ max_deals_per_source = 5
    /\ deal_timestamps = EmptyMap
    /\ now = 0
    /\ InitRun
    /\ InitScoreOff
    /\ InitExtractOff
    /\ InitFetchOff
    /\ InitLinkOff
    /\ InitBatchOff
    /\ InitStatsOff
    /\ InitParseOff
    /\ InitSysOff
    /\ al_pc = "ready"
    /\ AMAZON_AFFILIATE_ID \in {AffiliateId.main, AffiliateId.short, AffiliateId.unset}
    \* lines 42-51: the main id for US, the region's own id or the main id
    /\ \E india \in {AMAZON_AFFILIATE_ID, AffiliateId.regional, AffiliateId.short,
                     AffiliateId.unset} :
           REGIONAL_AFFILIATE_IDS =
               [r \in {Region.us, Region.india} |->
                   IF r = Region.us THEN AMAZON_AFFILIATE_ID ELSE india]
    /\ product_url \in {ProductUrl[f] : f \in DOMAIN ProductUrl}
    /\ region \in {None, Region.india, Region.unknown}
    /\ affiliate_link = <<>>

\* lines 117-173: no suspension point, so one step
CallGetAffiliateLink ==
    /\ al_pc = "ready"
    /\ affiliate_link' =
           GetAffiliateLink(product_url, region, REGIONAL_AFFILIATE_IDS, AMAZON_AFFILIATE_ID)
    /\ al_pc' = "returned"
    /\ UNCHANGED <<AMAZON_AFFILIATE_ID, REGIONAL_AFFILIATE_IDS, product_url, region>>
    /\ UNCHANGED <<instVars, runVars, scoreVars, extractVars, fetchVars, linkVars, batchVars>>
    /\ UNCHANGED <<statsVars, parseVars, sysVars>>

NextConfig ==
    CallGetAffiliateLink

SpecConfig ==
    InitConfig /\ [][NextConfig]_vars

----------------------------------------------------------------------------
(* Claims about get_affiliate_link *)

EffectiveId ==
    AffiliateIdFor(region, REGIONAL_AFFILIATE_IDS, AMAZON_AFFILIATE_ID)

\* an http(s) product URL and a configured, well-formed affiliate id
Taggable ==
    /\ StartsWith(product_url, <<"h", "t", "t", "p", ":", "/", "/">>) \/ StartsWith(product_url, <<"h", "t", "t", "p", "s", ":", "/", "/">>)
    /\ AMAZON_AFFILIATE_ID # <<>>
    /\ WellFormedId(EffectiveId)

\* the input URL with the four parameters appended
Appended ==
    product_url \o (IF Contains(product_url, <<"?">>) THEN <<"&">> ELSE <<"?">>)
        \o AffiliateParams(EffectiveId)

\* C25 as stated: the tagged variant of an http(s) product URL is the input
\* URL with tag, linkCode, camp and creative appended, after "&" when the
\* URL holds a "?" and after a new "?" otherwise, host, path and query kept.
C25_InputUrlKept ==
    (al_pc = "returned" /\ Taggable) =>
        /\ affiliate_link = Appended
        /\ UrlParse(affiliate_link).netloc = UrlParse(product_url).netloc
        /\ UrlParse(affiliate_link).path = UrlParse(product_url).path

\* C25: the tagged variant of an http(s) URL in which no /dp/ or
\* /gp/product/ segment is followed by ten characters A-Z0-9 is the input
\* URL with tag, linkCode, camp and creative appended in that order, after
\* "&" when the URL holds a "?" and after a new "?" otherwise; for a URL
\* with such a segment it is the https link to /dp/<identifier> on the
\* marketplace domain named in the URL (www.amazon.com when none is), with
\* the four parameters as its whole query.
C25_AppendedOrCanonical ==
    (al_pc = "returned" /\ Taggable) =>
        LET parsed == UrlParse(affiliate_link)
        IN  IF AsinOf(product_url) = None
            THEN /\ affiliate_link = Appended
                 /\ parsed.netloc = UrlParse(product_url).netloc
                 /\ parsed.path = UrlParse(product_url).path
            ELSE /\ parsed.scheme = <<"h", "t", "t", "p", "s">>
                 /\ \/ /\ Contains(product_url, parsed.netloc)
                       /\ \E k \in DOMAIN MarketplaceDomains :
                              parsed.netloc = MarketplaceDomains[k]
                    \/ /\ parsed.netloc = <<"w", "w", "w", ".", "a", "m", "a", "z", "o", "n", ".", "c", "o", "m">>
                       /\ \A k \in DOMAIN MarketplaceDomains :
                              ~Contains(product_url, MarketplaceDomains[k])
                 /\ parsed.path = DP \o AsinOf(product_url)
                 /\ parsed.query = AffiliateParams(EffectiveId)

\* a URL with a query and no identifier was tagged for a region with its own id
C25_Witness ==
    /\ al_pc = "returned"
    /\ Taggable
    /\ product_url = ProductUrl.search
    /\ region = Region.india
    /\ EffectiveId = AffiliateId.regional
    /\ affiliate_link = Appended

----------------------------------------------------------------------------
(* Claims about the retry loop of _scrape_source *)

LastGet ==
    last_get[1]

\* the most recent GET did not lead to a call of _parse_amazon_deals
LastGetFailed ==
    last_get # <<>> /\ ~LastGet.parsed

\* C26: one call of _scrape_source sends at most three GETs, whatever they
\* bring, and the step in which the third GET fails ends the call with the
\* empty list and adds no wait of _scrape_source to the sleeps (the caller
\* that walks the sources adds its pacing delay).
C26_AtMostThreeGets ==
    /\ [](/\ gets <= SourceMaxRetries
          /\ attempt <= SourceMaxRetries - 1
          /\ (pc = "done" /\ ~WalksSources(op) /\ last_get # <<>>)
                 => Len(sleeps) = gets - 1)
    /\ [][(attempt = SourceMaxRetries - 1 /\ gets' = SourceMaxRetries /\ ~last_get'[1].parsed) =>
              /\ attempt' = 0
              /\ contributed' = Append(contributed, <<>>)
              /\ sleeps' = sleeps \o (IF WalksSources(op) THEN <<rate_limit_delay>> ELSE <<>>)]_vars

\* a search that gave up after three GETs, the last one answered 429, having
\* slept twice
C26_Witness ==
    /\ op = "search_products_by_keyword"
    /\ pc = "done"
    /\ gets = SourceMaxRetries
    /\ LastGetFailed
    /\ LastGet.status = 429
    /\ Len(sleeps) = SourceMaxRetries - 1
    /\ result = <<>>

\* C27: the wait before the first retry after a 429 is 5 s, every wait after
\* a further 429 is twice the wait before it, and no wait exceeds 60 s.
C27_BackoffStartsAtFive ==
    /\ [](\A k \in DOMAIN sleeps : sleeps[k] <= MaxRetryDelay)
    /\ [][(last_get' # <<>> /\ last_get'[1].status = 429 /\ attempt' = attempt + 1) =>
              IF attempt = 0
              THEN sleeps' = <<InitialRetryDelay>>
              ELSE LastGet.status = 429 =>
                       sleeps' = Append(sleeps, 2 * sleeps[Len(sleeps)])]_vars

BlockWordIn(html) ==
    \E w \in BlockWords : Contains(Lower(html.text), w)

\* the body _scrape_source accepts: status 200, 1000 characters or more,
\* none of the three words in any case
Parseable(g) ==
    /\ g.kind = "response"
    /\ g.status = 200
    /\ g.html.len >= ShortBody
    /\ ~BlockWordIn(g.html)

\* C28: _parse_amazon_deals is called on the body of a GET exactly when the
\* response has status 200 and a body of at least 1000 characters without
\* "captcha", "robot" and "access denied" in any case; a GET with a short or
\* soft-blocked body is a failed attempt that contributes no candidates, and
\* the wait that follows a soft-blocked body is twice the current delay.
C28_ParsedOnlyWhenClean ==
    last_get # <<>> =>
        /\ LastGet.parsed <=> Parseable(LastGet)
        /\ (LastGet.kind = "response" /\ LastGet.status = 200 /\ ~Parseable(LastGet)) =>
               /\ attempt > 0 \/ contributed[Len(contributed)] = <<>>
               /\ attempt > 0 \/ gets = SourceMaxRetries
               /\ (attempt > 0 /\ LastGet.html.len >= ShortBody) =>
                      sleeps[Len(sleeps)] = 2 * retry_delay
               /\ (attempt > 0 /\ LastGet.html.len < ShortBody) =>
                      sleeps[Len(sleeps)] = retry_delay

\* a soft-blocked page of full length, in capitals, after a 429: the retry
\* waits twice the doubled delay
C28_Witness ==
    /\ last_get # <<>>
    /\ LastGet.status = 200
    /\ LastGet.html.len >= ShortBody
    /\ BlockWordIn(LastGet.html)
    /\ ~Contains(LastGet.html.text, <<"r", "o", "b", "o", "t">>)
    /\ attempt = 2
    /\ retry_delay = 2 * InitialRetryDelay
    /\ sleeps[Len(sleeps)] = 4 * InitialRetryDelay

----------------------------------------------------------------------------
(* DealScraper._parse_amazon_deals (lines 289-349), a function of the page *)
(* and max_deals_per_source.  A page is what soup.select answers for each  *)
(* of the twelve selectors of lines 294-307, taken by their position in    *)
(* the list: the elements it matches, or an exception.  Lines 334-347 only *)
(* write to the log.                                                       *)

\* len(deal_selectors), lines 294-307
NumDealSelectors == 12

\* elements one selector matches
MaxGroupElements == 3

\* lines 317-323: the products of the elements that _extract_product_data
\* turns into a product with an identifier
ProductsOf(es) ==
    SelectSeq(Flatten([i \in DOMAIN es |-> ExtractProductData(es[i])]),
              LAMBDA p : ~Falsy(p.asin))

\* lines 329-331 never leaving the loop
StopAfterNever(es, deals) ==
    FALSE

\* lines 316 and 329-331: the break after a selector that matched elements,
\* once deals holds a product
StopAfter(es, deals) ==
    es # <<>> /\ deals # <<>>

RECURSIVE ParseFrom(_, _, _, _, _)
\* lines 312-333: the loop from selector k on, with the deals collected and
\* the selectors tried so far
ParseFrom(page, k, deals, seen, cut) ==
    IF k > NumDealSelectors THEN [deals |-> deals, tried |-> seen]
    ELSE IF page[k].raises THEN ParseFrom(page, k + 1, deals, Append(seen, k), cut)
    ELSE LET es == page[k].elements
             extended == deals \o ProductsOf(SubSeq(es, 1, Min(Len(es), cut)))
         IN  IF StopAfter(es, extended)
             THEN [deals |-> extended, tried |-> Append(seen, k)]
             ELSE ParseFrom(page, k + 1, extended, Append(seen, k), cut)

\* lines 289-349
ParseAmazonDeals(page, max_per_source) ==
    ParseFrom(page, 1, <<>>, <<>>, max_per_source * 2)

\* an element of the group of selector k: one that yields a product with an
\* identifier of its own, or one without a usable identifier
GroupElements(k) ==
    {[NoElement EXCEPT !.data_asin = [Asin1 EXCEPT ![10] = IF k = 1 THEN "1"
                                                           ELSE IF k = 4 THEN "4" ELSE "9"],
                       !.selector_title = TitleOk],
     [NoElement EXCEPT !.data_asin = AsinShort, !.selector_title = TitleOk]}

Unmatched ==
    [raises |-> FALSE, elements |-> <<>>]

\* what soup.select can answer for a selector that matches
Groups(k) ==
    {[raises |-> FALSE, elements |-> es] : es \in SeqsUpTo(GroupElements(k), MaxGroupElements)}
    \cup {[raises |-> TRUE, elements |-> <<>>]}

InitParse ==
    /\ max_deals_per_source = 1
    /\ deal_timestamps = EmptyMap
    /\ now = 0
    /\ InitRun
    /\ InitScoreOff
    /\ InitExtractOff
    /\ InitFetchOff
    /\ InitLinkOff
    /\ InitBatchOff
    /\ InitStatsOff
    /\ InitConfigOff
    /\ InitSysOff
    /\ pa_pc = "ready"
    \* pages in which the first, a middle and the last selector match
    /\ \E first \in Groups(1), middle \in Groups(4), last \in Groups(NumDealSelectors) :
           soup = [k \in 1..NumDealSelectors |->
                      IF k = 1 THEN first
                      ELSE IF k = 4 THEN middle
                      ELSE IF k = NumDealSelectors THEN last
                      ELSE Unmatched]
    /\ parsed_deals = <<>>
    /\ tried = <<>>

\* lines 289-349: no suspension point, so one step
CallParseAmazonDeals ==
    /\ pa_pc = "ready"
    /\ LET ret == ParseAmazonDeals(soup, max_deals_per_source)
       IN  /\ parsed_deals' = ret.deals
           /\ tried' = ret.tried
    /\ pa_pc' = "returned"
    /\ UNCHANGED soup
    /\ UNCHANGED <<instVars, runVars, scoreVars, extractVars, fetchVars, linkVars, batchVars>>
    /\ UNCHANGED <<statsVars, configVars, sysVars>>

NextParse ==
    CallParseAmazonDeals

SpecParse ==
    InitParse /\ [][NextParse]_vars

----------------------------------------------------------------------------
(* Claims about _parse_amazon_deals *)

\* the candidates extracted from the elements of selector k that are
\* looked at, the first 2 * max_deals_per_source
YieldOf(k) ==
    IF soup[k].raises THEN <<>>
    ELSE LET es == soup[k].elements
         IN  ProductsOf(SubSeq(es, 1, Min(Len(es), 2 * max_deals_per_source)))

Yielding ==
    {k \in 1..NumDealSelectors : YieldOf(k) # <<>>}

\* C30: the selectors are tried in the order of the list; the result is the
\* candidates of the first selector that yields one, in the order of its
\* elements, and no selector after it is tried; when no selector yields a
\* candidate every selector has been tried and the result is empty.
C30_FirstYieldingGroup ==
    pa_pc = "returned" =>
        /\ \A i \in DOMAIN tried : tried[i] = i
        /\ IF Yielding = {}
           THEN /\ parsed_deals = <<>>
                /\ Len(tried) = NumDealSelectors
           ELSE LET g == CHOOSE k \in Yielding : \A h \in Yielding : k <= h
                IN  /\ parsed_deals = YieldOf(g)
                    /\ Len(tried) = g
        /\ parsed_deals = <<>> => Yielding = {}

\* the first selector matches elements of which none that is looked at
\* yields a candidate, the middle one yields two, the last one could yield
\* as well and is not tried
C30_Witness ==
    /\ pa_pc = "returned"
    /\ Len(soup[1].elements) = MaxGroupElements
    /\ ProductsOf(soup[1].elements) # <<>>
    /\ YieldOf(1) = <<>>
    /\ Len(YieldOf(4)) = 2
    /\ YieldOf(NumDealSelectors) # <<>>
    /\ parsed_deals = YieldOf(4)
    /\ Len(tried) = 4

\* ---------------------------------------------------------------------
\* validate_link: the fields of the returned result
\* ---------------------------------------------------------------------

\* the fields of the result r agree with each other and with the log of
\* requests
ConsistentResult(r) ==
    /\ r.is_valid =>
          /\ r.status_code # <<>>
          /\ r.status_code[1] \in {200, 206, 416}
          /\ r.error_message = <<>>
    /\ ~r.is_valid => r.error_message # <<>>
    /\ requests = <<>> => r.status_code = <<>> /\ r.response_time = 0

\* C36: a call of validate_link with max_retries >= 0 that has returned has
\* returned exactly one result; in it is_valid = true implies a status code
\* of 200, 206 or 416 and no error message, is_valid = false implies an
\* error message, and a result produced before any request has no status
\* code and response time 0.
C36_ResultIsConsistent ==
    /\ max_retries >= 0
    /\ lv_pc = "returned" => Len(validation) = 1
    /\ \A i \in 1..Len(validation) : ConsistentResult(validation[i])

\* a call that was answered 405 and then accepted by the full GET
C36_Witness ==
    /\ lv_pc = "returned"
    /\ Len(requests) = 2
    /\ requests[1].status = 405
    /\ validation[1].is_valid
    /\ validation[1].status_code = <<200>>

\* ---------------------------------------------------------------------
\* scrape_real_amazon_deals: first-seen times are recorded before scoring
\* ---------------------------------------------------------------------

\* the part of a score that lines 702-710 added
FreshnessPart(scored) ==
    scored[2] - (DiscountScore(scored[1]) + RatingScore(scored[1])
                 + ReviewScore(scored[1]) + BadgeScore(scored[1]))

\* the bonus of lines 705-710 for an age of h whole hours
BonusForAge(h) ==
    IF h < 1 THEN 10 ELSE IF h < 6 THEN 7 ELSE IF h < 24 THEN 5 ELSE 0

\* the step of a run that deduplicates, filters and scores
RunScores ==
    pc = "fetching" /\ pc' = "done"

\* C34: in every run, every scored candidate's identifier is in the
\* first-seen map when it is scored, its freshness component is the bonus
\* for the age of that recorded time, and a candidate first observed in the
\* run itself gets the bonus of an age below one hour (+10), like a
\* candidate first seen less than an hour before.
C34_ScoredFromRecordedTime ==
    [][RunScores =>
          \A i \in 1..Len(scored_deals') :
              LET asin == scored_deals'[i][1].asin
              IN  /\ asin \in DOMAIN deal_timestamps'
                  /\ FreshnessPart(scored_deals'[i])
                         = BonusForAge(now - deal_timestamps'[asin])
                  /\ asin \notin DOMAIN deal_timestamps
                         => FreshnessPart(scored_deals'[i]) = 10
                  /\ (asin \in DOMAIN deal_timestamps
                      /\ now - deal_timestamps[asin] < 1)
                         => FreshnessPart(scored_deals'[i]) = 10]_vars

\* a finished run that ranked a candidate first seen in it next to one
\* first seen in an earlier run, hours before
C34_Witness ==
    /\ pc = "done"
    /\ \E i, j \in 1..Len(scored_deals) :
          /\ deal_timestamps[scored_deals[i][1].asin] = now
          /\ FreshnessPart(scored_deals[i]) = 10
          /\ deal_timestamps[scored_deals[j][1].asin] < now
          /\ FreshnessPart(scored_deals[j]) = 7

\* ---------------------------------------------------------------------
\* get_affiliate_link followed by verify_affiliate_tag
\* ---------------------------------------------------------------------

\* C40: for every http(s) URL and every configured well-formed affiliate
\* id, the link returned by get_affiliate_link passes verify_affiliate_tag
\* with that id: the first tag parameter of the produced URL is the id, also
\* for an input URL that already carries a query string or a tag parameter.
C40_LinkPassesTagCheck ==
    (al_pc = "returned" /\ Taggable) =>
        /\ VerifyAffiliateTag(affiliate_link, EffectiveId)
        /\ FirstTagValue(UrlParse(affiliate_link).query) = EffectiveId

----------------------------------------------------------------------------
(* LinkValidator._is_amazon_link (src/link_validator.py, lines 238-270)    *)
(* called on its own                                                       *)

LinkHosts ==
    {<<"a", "m", "a", "z", "o", "n", ".", "i", "n">>, <<"w", "w", "w", ".", "a", "m", "a", "z", "o", "n", ".", "c", "o", "m">>, <<"d", "e", "a", "l", "s", ".", "e", "x", "a", "m", "p", "l", "e">>}

LinkPrefixes ==
    {DP, GP_PRODUCT, <<"/", "b", "/">>}

\* what follows the prefix: ten characters A-Z0-9, too few, too many,
\* lower case, a character outside the class, nothing
LinkSegments ==
    {<<"B", "0", "0", "0", "0", "0", "0", "0", "0", "1">>, <<"B", "0", "0", "0", "0">>, <<"B", "0", "0", "0", "0", "0", "0", "0", "0", "1", "2">>, <<"b", "0", "0", "0", "0", "0", "0", "0", "0", "1">>, <<"B", "0", "0", "0", "0", "-", "0", "0", "0", "1">>, <<>>}

LinkSuffixes ==
    {<<>>, <<"/", "r", "e", "f">>}

LinkUrls ==
    {<<"h", "t", "t", "p", "s", ":", "/", "/">> \o h \o p \o s \o x :
        h \in LinkHosts, p \in LinkPrefixes, s \in LinkSegments, x \in LinkSuffixes}

InitIsAmazonLink ==
    /\ max_deals_per_source = 5
    /\ deal_timestamps = EmptyMap
    /\ now = 0
    /\ InitRun
    /\ InitScoreOff
    /\ InitExtractOff
    /\ InitFetchOff
    /\ InitLinkOff
    /\ InitBatchOff
    /\ InitStatsOff
    /\ InitConfigOff
    /\ InitParseOff
    /\ InitPoolOff
    /\ InitSchedOff
    /\ ck_pc = "ready"
    /\ ck_url \in LinkUrls
    /\ is_amazon_link = <<>>
    /\ sd_gets = <<>>
    /\ specific_deal = <<>>

\* lines 238-270: no suspension point, so one step
CallIsAmazonLink ==
    /\ ck_pc = "ready"
    /\ is_amazon_link' = <<IsAmazonLink(ck_url)>>
    /\ ck_pc' = "returned"
    /\ UNCHANGED <<ck_url, sd_gets, specific_deal>>
    /\ UNCHANGED <<instVars, runVars, scoreVars, extractVars, fetchVars, linkVars, batchVars>>
    /\ UNCHANGED <<statsVars, configVars, parseVars, poolVars, schedVars>>

NextIsAmazonLink ==
    CallIsAmazonLink

SpecIsAmazonLink ==
    InitIsAmazonLink /\ [][NextIsAmazonLink]_vars

\* the host of u is one of the listed domains, "www." and case aside
HostAllowListed(u) ==
    LET lowered == Lower(UrlParse(u).netloc)
    IN  (IF StartsWith(lowered, WWW) THEN From(lowered, 5) ELSE lowered) \in amazon_domains

\* where the path's first /dp/ or /gp/product/ ends, 0 when it has neither
SegmentStart(path) ==
    LET At(i) == \/ SubSeq(path, i, i + Len(DP) - 1) = DP
                 \/ SubSeq(path, i, i + Len(GP_PRODUCT) - 1) = GP_PRODUCT
    IN  IF \E i \in 1..Len(path) : At(i)
        THEN LET i == CHOOSE i \in 1..Len(path) : At(i) /\ \A h \in 1..(i - 1) : ~At(h)
             IN  IF SubSeq(path, i, i + Len(DP) - 1) = DP
                 THEN i + Len(DP) ELSE i + Len(GP_PRODUCT)
        ELSE 0

\* the path segment that follows /dp/ or /gp/product/
ProductSegment(path) ==
    SubSeq(path, SegmentStart(path), IndexOfChar(path, {"/"}, SegmentStart(path)) - 1)

\* C33: for a URL whose host is allow-listed and whose path holds /dp/ or
\* /gp/product/, _is_amazon_link returns true when the segment that follows
\* is exactly 10 alphanumeric characters and false when it is not.
C33_IdentifierSegmentChecked ==
    (/\ ck_pc = "returned"
     /\ HostAllowListed(ck_url)
     /\ SegmentStart(UrlParse(ck_url).path) > 0) =>
        LET segment == ProductSegment(UrlParse(ck_url).path)
        IN  is_amazon_link[1] =
                (Len(segment) = 10 /\ \A i \in DOMAIN segment : IsAlphanumeric(segment[i]))

----------------------------------------------------------------------------
(* DealScraper.scrape_specific_deal (src/scraper.py, lines 768-849) on an  *)
(* instance whose session is open                                          *)

\* lines 791-792
specific_deal_domains ==
    <<<<"a", "m", "a", "z", "o", "n", ".", "c", "o", "m">>, <<"a", "m", "a", "z", "o", "n", ".", "c", "o", ".", "u", "k">>, <<"a", "m", "a", "z", "o", "n", ".", "d", "e">>, <<"a", "m", "a", "z", "o", "n", ".", "f", "r">>,
      <<"a", "m", "a", "z", "o", "n", ".", "c", "a">>, <<"a", "m", "a", "z", "o", "n", ".", "c", "o", "m", ".", "a", "u">>, <<"a", "m", "a", "z", "o", "n", ".", "c", "o", ".", "j", "p">>, <<"a", "m", "a", "z", "o", "n", ".", "i", "n">>>>

\* line 799
suspicious_patterns ==
    <<<<"j", "a", "v", "a", "s", "c", "r", "i", "p", "t", ":">>, <<"d", "a", "t", "a", ":">>, <<"v", "b", "s", "c", "r", "i", "p", "t", ":">>, <<"<", "s", "c", "r", "i", "p", "t">>>>

\* line 793: any(domain in url.lower() for domain in amazon_domains)
NamesAmazonDomain(u) ==
    \E k \in DOMAIN specific_deal_domains : Contains(Lower(u), specific_deal_domains[k])

\* line 800
IsSuspicious(u) ==
    \E k \in DOMAIN suspicious_patterns : Contains(Lower(u), suspicious_patterns[k])

\* lines 779-802: whether the checks let the stripped URL u through
PassesChecks(u) ==
    /\ u # <<>>
    /\ StartsWith(u, <<"h", "t", "t", "p", ":", "/", "/">>) \/ StartsWith(u, <<"h", "t", "t", "p", "s", ":", "/", "/">>)
    /\ NamesAmazonDomain(u)
    /\ ~IsSuspicious(u)

DealSchemes ==
    {<<"h", "t", "t", "p", "s", ":", "/", "/">>, <<"h", "t", "t", "p", ":", "/", "/">>,
     <<"f", "t", "p", ":", "/", "/">>}

DealHosts ==
    {<<"a", "m", "a", "z", "o", "n", ".", "i", "n">>, <<"w", "w", "w", ".", "a", "m", "a", "z", "o", "n", ".", "c", "o", "m">>, <<"d", "e", "a", "l", "s", ".", "e", "x", "a", "m", "p", "l", "e">>, <<"a", "m", "a", "z", "o", "n", ".", "i", "n", ".", "d", "e", "a", "l", "s", ".",
      "e", "x", "a", "m", "p", "l", "e">>}

DealTails ==
    {<<"/", "d", "p", "/", "B", "0", "0", "0", "0", "0", "0", "0", "0", "1">>, <<"/", "g", "o", "?", "t", "o", "=", "a", "m", "a", "z", "o", "n", ".", "c", "o",
      "m">>, <<"/", "a", "m", "a", "z", "o", "n", ".", "d", "e", "/", "o", "f", "f", "e", "r">>, <<"/", "d", "p", "/", "B", "0", "0", "0", "0", "0", "0", "0", "0", "1", "?", "q",
      "=", "<", "s", "c", "r", "i", "p", "t">>,
     <<"/", "d", "p", "/", "B", "0", "0", "0", "0", "0", "0", "0", "0", "1", " ">>}

DealUrls ==
    {<<>>} \cup {s \o h \o t : s \in DealSchemes, h \in DealHosts, t \in DealTails}

\* what the GET of line 807 can bring: a status and whether the page has a
\* title (lines 815-818, 830-832), or an exception (line 847)
DealResponses ==
    {[kind |-> "response", status |-> 200, has_title |-> TRUE],
     [kind |-> "response", status |-> 200, has_title |-> FALSE],
     [kind |-> "response", status |-> 404, has_title |-> FALSE],
     [kind |-> "client_error", status |-> 0, has_title |-> FALSE]}

\* lines 836-844: the Product built from the page, here its link
Product(link) ==
    <<"Product", link>>

InitSpecificDeal ==
    /\ max_deals_per_source = 5
    /\ deal_timestamps = EmptyMap
    /\ now = 0
    /\ InitRun
    /\ InitScoreOff
    /\ InitExtractOff
    /\ InitFetchOff
    /\ InitLinkOff
    /\ InitBatchOff
    /\ InitStatsOff
    /\ InitConfigOff
    /\ InitParseOff
    /\ InitPoolOff
    /\ InitSchedOff
    /\ ck_pc = "ready"
    /\ ck_url \in DealUrls
    /\ is_amazon_link = <<>>
    /\ sd_gets = <<>>
    /\ specific_deal = <<>>

\* lines 768-807: the checks, up to the request
CallScrapeSpecificDeal ==
    /\ ck_pc = "ready"
    /\ IF PassesChecks(Strip(ck_url))
       THEN /\ sd_gets' = Append(sd_gets, Strip(ck_url))
            /\ ck_pc' = "requested"
            /\ UNCHANGED specific_deal
       ELSE /\ specific_deal' = None
            /\ ck_pc' = "returned"
            /\ UNCHANGED sd_gets
    /\ UNCHANGED <<ck_url, is_amazon_link>>
    /\ UNCHANGED <<instVars, runVars, scoreVars, extractVars, fetchVars, linkVars, batchVars>>
    /\ UNCHANGED <<statsVars, configVars, parseVars, poolVars, schedVars>>

\* lines 807-849: the response and what is made of it
ReceiveSpecificDeal ==
    /\ ck_pc = "requested"
    /\ \E r \in DealResponses :
          specific_deal' =
              IF r.kind = "response" /\ r.status = 200 /\ r.has_title
              THEN Product(Strip(ck_url))
              ELSE None
    /\ ck_pc' = "returned"
    /\ UNCHANGED <<ck_url, is_amazon_link, sd_gets>>
    /\ UNCHANGED <<instVars, runVars, scoreVars, extractVars, fetchVars, linkVars, batchVars>>
    /\ UNCHANGED <<statsVars, configVars, parseVars, poolVars, schedVars>>

NextSpecificDeal ==
    \/ CallScrapeSpecificDeal
    \/ ReceiveSpecificDeal

SpecSpecificDeal ==
    InitSpecificDeal /\ [][NextSpecificDeal]_vars

\* the host of u is an Amazon marketplace domain, "www." and case aside
HostIsMarketplace(u) ==
    LET lowered == Lower(UrlParse(u).netloc)
        host == IF StartsWith(lowered, WWW) THEN From(lowered, 5) ELSE lowered
    IN  \E k \in DOMAIN specific_deal_domains : host = specific_deal_domains[k]

\* C32: scrape_specific_deal issues a GET only when the URL's host is one of
\* the Amazon marketplace domains; for a URL whose host is another domain it
\* returns None with no request, also when an Amazon domain name occurs in
\* the URL's path or query.
C32_RequestOnlyToMarketplaceHost ==
    /\ sd_gets # <<>> => HostIsMarketplace(ck_url)
    /\ (ck_pc = "returned" /\ ~HostIsMarketplace(ck_url)) =>
           sd_gets = <<>> /\ specific_deal = None

----------------------------------------------------------------------------
(* The connection pool of one component instance: DealScraper              *)
(* (src/scraper.py, lines 55-67) or LinkValidator (src/link_validator.py,  *)
(* lines 30-65), under a sequence of calls made one after the other.       *)
(* session is what self.session refers to: "None", an open ClientSession   *)
(* or a closed one.  session_uses logs, for every session.get, the state   *)
(* of the session it was called on.                                        *)

MaxSessionUses == 4
MaxCloses == 3

Components ==
    {"DealScraper", "LinkValidator"}

\* initialize() creating a ClientSession on every call
AfterInitializeAlways(comp, sess) ==
    [session |-> "open", created |-> 1]

\* scraper.py lines 57-62 (`if not self.session`), link_validator.py lines
\* 32-58 (`if self.session is None`): a ClientSession object is truthy,
\* open or closed
AfterInitialize(comp, sess) ==
    IF sess = "None"
    THEN [session |-> "open", created |-> 1]
    ELSE [session |-> sess, created |-> 0]

\* scraper.py lines 66-67: the session is closed and kept;
\* link_validator.py lines 62-65: the session is closed and dropped
AfterClose(comp, sess) ==
    IF sess = "None" THEN "None"
    ELSE IF comp = "LinkValidator" THEN "None"
    ELSE "closed"

InitPool ==
    /\ max_deals_per_source = 5
    /\ deal_timestamps = EmptyMap
    /\ now = 0
    /\ InitRun
    /\ InitScoreOff
    /\ InitExtractOff
    /\ InitFetchOff
    /\ InitLinkOff
    /\ InitBatchOff
    /\ InitStatsOff
    /\ InitConfigOff
    /\ InitParseOff
    /\ InitCheckOff
    /\ InitSchedOff
    /\ component \in Components
    /\ session = "None"
    /\ sessions_created = 0
    /\ sessions_closed = 0
    /\ session_uses = <<>>

PoolOthersUnchanged ==
    /\ UNCHANGED <<instVars, runVars, scoreVars, extractVars, fetchVars, linkVars, batchVars>>
    /\ UNCHANGED <<statsVars, configVars, parseVars, checkVars, schedVars>>

\* initialize(), also through __aenter__
Initialize ==
    /\ LET after == AfterInitialize(component, session)
       IN  /\ session' = after.session
           /\ sessions_created' = sessions_created + after.created
    /\ UNCHANGED <<component, sessions_closed, session_uses>>
    /\ PoolOthersUnchanged

\* close(), also through __aexit__
Close ==
    /\ sessions_closed < MaxCloses
    /\ session' = AfterClose(component, session)
    /\ sessions_closed' = IF session = "open" THEN sessions_closed + 1 ELSE sessions_closed
    /\ UNCHANGED <<component, sessions_created, session_uses>>
    /\ PoolOthersUnchanged

\* the operations of a component that call session.get
Operations(comp) ==
    IF comp = "DealScraper"
    THEN {"scrape_real_amazon_deals", "scrape_specific_deal"}
    ELSE {"validate_link"}

\* scrape_specific_deal (lines 770-771, 807), scrape_real_amazon_deals with
\* _scrape_source (lines 71-72, 226-228, 235) or validate_link
\* (link_validator.py lines 69-70, 93): initialize() when self.session is
\* falsy, then session.get on what self.session refers to
FetchOrValidate ==
    /\ Len(session_uses) < MaxSessionUses
    /\ \E operation \in Operations(component) :
          LET after == AfterInitialize(component, session)
          IN  /\ session' = after.session
              /\ sessions_created' = sessions_created + after.created
              /\ session_uses' =
                     Append(session_uses, [op |-> operation, session |-> after.session])
    /\ UNCHANGED <<component, sessions_closed>>
    /\ PoolOthersUnchanged

NextPool ==
    \/ Initialize
    \/ Close
    \/ FetchOrValidate

SpecPool ==
    InitPool /\ [][NextPool]_vars

\* sessions created and not closed yet
OpenSessions ==
    sessions_created - sessions_closed

\* C31 as stated: over any sequence of initialize(), fetch/validate
\* operations and close() on one instance, no second pool is created.
C31_NoSecondPool ==
    sessions_created <= 1

\* C31: an instance has at most one open pool at any time, and every open
\* pool is the one the instance holds; initialize() and the fetch and
\* validation operations create a pool only when the instance holds none
\* and otherwise use the one it holds.  A DealScraper creates at most one
\* pool over its lifetime; a LinkValidator creates a new pool in the first
\* initialize() or validation after a close(), so the pools it has created
\* number at most one more than the pools it has closed.
C31_OnePoolAtATime ==
    /\ OpenSessions = (IF session = "open" THEN 1 ELSE 0)
    /\ sessions_created <= sessions_closed + 1
    /\ component = "DealScraper" => sessions_created <= 1
    /\ [][sessions_created' # sessions_created =>
              /\ session = "None"
              /\ sessions_created' = sessions_created + 1]_vars

\* a LinkValidator that validated twice on one pool, was closed and
\* validated again on a second pool
C31_Witness ==
    /\ component = "LinkValidator"
    /\ sessions_created = 2
    /\ sessions_closed = 1
    /\ Len(session_uses) = 3
    /\ session = "open"

\* C35: no request is issued on a released pool: every session.get of a
\* DealScraper or LinkValidator instance is made on an open session, also
\* after close() has completed.
C35_NoUseAfterClose ==
    \A i \in DOMAIN session_uses : session_uses[i].session = "open"

----------------------------------------------------------------------------
(* TaskScheduler (src/scheduler.py).  scheduler_tasks is self.tasks: for   *)
(* every task the loop it runs, the start() call that created it, where it *)
(* is (the initial delay, awaiting the job, the interval sleep, the error  *)
(* back-off sleep, done) and, once cancel() was called on it, where it was *)
(* at that moment.  Sleeps have no length here: a sleeping task wakes at   *)
(* any later step.                                                         *)

\* a cap on len(self.tasks)
MaxTasks == 6

\* lines 26-39 and 51-59: the loops in the order of their creation
Loops ==
    <<"deal_posting", "database_cleanup", "stats_update">>

Sleeping ==
    {"initial_delay", "interval_sleep", "backoff"}

NewTask(loop, group) ==
    [loop |-> loop, group |-> group, at |-> "initial_delay", at_cancel |-> "none"]

\* cancel() was called on the task and it has not reacted yet
CancelPending(task) ==
    task.at # "done" /\ task.at_cancel # "none"

\* lines 73-75: task.cancel() on every task that is not done
AfterCancelAll(ts) ==
    [i \in DOMAIN ts |->
        IF ts[i].at # "done" THEN [ts[i] EXCEPT !.at_cancel = ts[i].at] ELSE ts[i]]

\* a job's exception leaving the loop: the task ends with it and the
\* TaskGroup cancels the other tasks of the group
AfterJobErrorPropagating(ts, i) ==
    [j \in DOMAIN ts |->
        IF j = i THEN [ts[j] EXCEPT !.at = "done"]
        ELSE IF ts[j].group = ts[i].group /\ ts[j].at # "done"
        THEN [ts[j] EXCEPT !.at_cancel = ts[j].at]
        ELSE ts[j]]

\* lines 103-106, 129-132, 148-151: `except Exception` inside the loop, the
\* task goes to its back-off sleep and no other task is touched
AfterJobError(ts, i) ==
    [ts EXCEPT ![i].at = "backoff"]

\* lines 84-85, 100: `while self.running` after a sleep
AfterWake(task, is_running) ==
    [task EXCEPT !.at = IF is_running THEN "job" ELSE "done"]

\* the tasks of the start() call number g are all done
GroupDone(ts, g) ==
    \A i \in DOMAIN ts : ts[i].group = g => ts[i].at = "done"

InitScheduler ==
    /\ max_deals_per_source = 5
    /\ deal_timestamps = EmptyMap
    /\ now = 0
    /\ InitRun
    /\ InitScoreOff
    /\ InitExtractOff
    /\ InitFetchOff
    /\ InitLinkOff
    /\ InitBatchOff
    /\ InitStatsOff
    /\ InitConfigOff
    /\ InitParseOff
    /\ InitCheckOff
    /\ InitPoolOff
    \* lines 13-16
    /\ running = FALSE
    /\ scheduler_tasks = <<>>
    /\ start_pc = <<>>
    /\ stop_pc = "idle"
    /\ stop_awaits = 0
    /\ immediate = "none"

SchedOthersUnchanged ==
    /\ UNCHANGED <<instVars, runVars, scoreVars, extractVars, fetchVars, linkVars, batchVars>>
    /\ UNCHANGED <<statsVars, configVars, parseVars, checkVars, poolVars>>

\* lines 20-41: start() up to the end of the TaskGroup block, where it
\* waits for its three tasks; no start() while a stop() is waiting
CallStart ==
    /\ stop_pc # "waiting"
    /\ Len(scheduler_tasks) + Len(Loops) <= MaxTasks
    /\ running' = TRUE
    /\ scheduler_tasks' =
           scheduler_tasks \o [k \in DOMAIN Loops |-> NewTask(Loops[k], Len(start_pc) + 1)]
    /\ start_pc' = Append(start_pc, "awaiting")
    /\ UNCHANGED <<stop_pc, stop_awaits, immediate>>
    /\ SchedOthersUnchanged

\* lines 42-49: the TaskGroup block ends when its tasks are done, then
\* `finally: self.running = False`
StartReturns(g) ==
    /\ start_pc[g] = "awaiting"
    /\ GroupDone(scheduler_tasks, g)
    /\ running' = FALSE
    /\ start_pc' = [start_pc EXCEPT ![g] = "returned"]
    /\ UNCHANGED <<scheduler_tasks, stop_pc, stop_awaits, immediate>>
    /\ SchedOthersUnchanged

\* stop() without the gather of lines 77-80
CallStopWithoutGather ==
    /\ stop_pc \in {"idle", "returned"}
    /\ running' = FALSE
    /\ scheduler_tasks' = AfterCancelAll(scheduler_tasks)
    /\ stop_awaits' = Len(scheduler_tasks)
    /\ stop_pc' = "returned"
    /\ UNCHANGED <<start_pc, immediate>>
    /\ SchedOthersUnchanged

\* lines 70-80: stop() up to its gather, which line 77 skips for an empty
\* self.tasks
CallStop ==
    /\ stop_pc \in {"idle", "returned"}
    /\ running' = FALSE
    /\ scheduler_tasks' = AfterCancelAll(scheduler_tasks)
    /\ stop_awaits' = Len(scheduler_tasks)
    /\ stop_pc' = IF scheduler_tasks = <<>> THEN "returned" ELSE "waiting"
    /\ UNCHANGED <<start_pc, immediate>>
    /\ SchedOthersUnchanged

\* lines 77-80: gather(*self.tasks, return_exceptions=True) is over
StopReturns ==
    /\ stop_pc = "waiting"
    /\ \A i \in 1..stop_awaits : scheduler_tasks[i].at = "done"
    /\ stop_pc' = "returned"
    /\ UNCHANGED <<running, scheduler_tasks, start_pc, stop_awaits, immediate>>
    /\ SchedOthersUnchanged

\* lines 83-85, 98-100, 106 (and the same lines of the two other loops): a
\* sleep is over and the loop tests self.running
Wake(i) ==
    /\ scheduler_tasks[i].at \in Sleeping
    /\ ~CancelPending(scheduler_tasks[i])
    /\ scheduler_tasks' =
           [scheduler_tasks EXCEPT ![i] = AfterWake(scheduler_tasks[i], running)]
    /\ UNCHANGED <<running, start_pc, stop_pc, stop_awaits, immediate>>
    /\ SchedOthersUnchanged

\* lines 87-98: the job returned, the loop goes to its interval sleep
JobReturns(i) ==
    /\ scheduler_tasks[i].at = "job"
    /\ ~CancelPending(scheduler_tasks[i])
    /\ scheduler_tasks' = [scheduler_tasks EXCEPT ![i].at = "interval_sleep"]
    /\ UNCHANGED <<running, start_pc, stop_pc, stop_awaits, immediate>>
    /\ SchedOthersUnchanged

\* lines 103-106: the job raised an Exception
JobRaises(i) ==
    /\ scheduler_tasks[i].at = "job"
    /\ ~CancelPending(scheduler_tasks[i])
    /\ scheduler_tasks' = AfterJobError(scheduler_tasks, i)
    /\ UNCHANGED <<running, start_pc, stop_pc, stop_awaits, immediate>>
    /\ SchedOthersUnchanged

\* CancelledError at the task's await: caught by lines 101-102 while the
\* job or the interval sleep is awaited (break), uncaught in the initial
\* delay (line 83, outside the try) and in the back-off sleep (line 106,
\* inside a handler); the task is done either way
Cancelled(i) ==
    /\ CancelPending(scheduler_tasks[i])
    /\ scheduler_tasks' = [scheduler_tasks EXCEPT ![i].at = "done"]
    /\ UNCHANGED <<running, start_pc, stop_pc, stop_awaits, immediate>>
    /\ SchedOthersUnchanged

\* lines 153-175: run_immediate_task(task_name) up to the await of its job
CallRunImmediateTask ==
    /\ immediate = "none"
    /\ immediate' \in {"post_deals", "cleanup_database", "update_stats"}
    /\ UNCHANGED <<running, scheduler_tasks, start_pc, stop_pc, stop_awaits>>
    /\ SchedOthersUnchanged

\* lines 158-182: the job returned (True) or raised (False)
RunImmediateTaskReturns ==
    /\ immediate # "none"
    /\ immediate' = "none"
    /\ UNCHANGED <<running, scheduler_tasks, start_pc, stop_pc, stop_awaits>>
    /\ SchedOthersUnchanged

NextScheduler ==
    \/ CallStart
    \/ \E g \in DOMAIN start_pc : StartReturns(g)
    \/ CallStop
    \/ StopReturns
    \/ \E i \in DOMAIN scheduler_tasks : Wake(i)
    \/ \E i \in DOMAIN scheduler_tasks : JobReturns(i)
    \/ \E i \in DOMAIN scheduler_tasks : JobRaises(i)
    \/ \E i \in DOMAIN scheduler_tasks : Cancelled(i)
    \/ CallRunImmediateTask
    \/ RunImmediateTaskReturns

SpecScheduler ==
    InitScheduler /\ [][NextScheduler]_vars

\* where the task number i is, "absent" before it is created
At(i) ==
    IF i \in DOMAIN scheduler_tasks THEN scheduler_tasks[i].at ELSE "absent"

\* start() called once
CallStartOnce ==
    scheduler_tasks = <<>> /\ CallStart

NextSchedulerFair ==
    \/ CallStartOnce
    \/ \E g \in DOMAIN start_pc : StartReturns(g)
    \/ CallStop
    \/ StopReturns
    \/ \E i \in DOMAIN scheduler_tasks : Wake(i)
    \/ \E i \in DOMAIN scheduler_tasks : JobReturns(i)
    \/ \E i \in DOMAIN scheduler_tasks : JobRaises(i)
    \/ \E i \in DOMAIN scheduler_tasks : Cancelled(i)
    \/ CallRunImmediateTask
    \/ RunImmediateTaskReturns

\* the event loop resumes every task whose sleep is over and delivers every
\* requested cancellation; the sleeps of lines 83, 100 and 106 are finite
SpecSchedulerFair ==
    /\ InitScheduler
    /\ [][NextSchedulerFair]_vars
    /\ \A i \in DOMAIN Loops :
           /\ WF_vars(At(i) # "absent" /\ Wake(i))
           /\ WF_vars(At(i) # "absent" /\ Cancelled(i))

\* calls of bot.post_deals that have begun and not ended
PostDealsInProgress ==
    Cardinality({i \in DOMAIN scheduler_tasks :
                     scheduler_tasks[i].loop = "deal_posting" /\ scheduler_tasks[i].at = "job"})
        + (IF immediate = "post_deals" THEN 1 ELSE 0)

\* C39: at most one invocation of bot.post_deals is in progress at any
\* time, over all interleavings of the scheduled deal-posting loop,
\* run_immediate_task('post_deals') and repeated start() calls.
C39_OnePostDealsAtATime ==
    PostDealsInProgress <= 1

\* the step in which a stop() call returns
StopHasReturned ==
    stop_pc # "returned" /\ stop_pc' = "returned"

JobHasRaised(i) ==
    /\ scheduler_tasks[i].at = "job"
    /\ scheduler_tasks'[i].at \notin {"job", "interval_sleep"}
    /\ scheduler_tasks[i].at_cancel = "none"
    /\ scheduler_tasks'[i].at_cancel = "none"

\* C38: a job that raises an ordinary exception sends its loop to the
\* back-off sleep and changes no other task and not the running flag; and
\* a loop in its back-off sleep calls its job again unless the scheduler
\* has stopped running.  This holds for the deal-posting loop and for the
\* two other loops.
C38_FailedJobIsRetried ==
    /\ [][\A i \in DOMAIN scheduler_tasks :
              JobHasRaised(i) =>
                  /\ scheduler_tasks'[i].at = "backoff"
                  /\ running' = running
                  /\ \A j \in DOMAIN scheduler_tasks :
                         j # i => scheduler_tasks'[j] = scheduler_tasks[j]]_vars
    /\ \A i \in DOMAIN Loops :
           (At(i) = "backoff") ~> (At(i) = "job" \/ ~running)

\* the deal-posting job has failed and its loop is in the back-off sleep,
\* while the scheduler is running and the two other loops go on
C38_Witness ==
    /\ running
    /\ Len(scheduler_tasks) = 3
    /\ scheduler_tasks[1].loop = "deal_posting"
    /\ scheduler_tasks[1].at = "backoff"
    /\ scheduler_tasks[1].at_cancel = "none"
    /\ scheduler_tasks[2].at = "job"
    /\ scheduler_tasks[3].at = "interval_sleep"

====
